---- MODULE Spec2Model ----
(***************************************************************************)
(* Model of the GLSL preprocessor event driver of lang-pp                  *)
(* (src/lang-pp/src/processor.rs): the ProcessorState, the conditional     *)
(* mask stack, Processor::handle_node and the Expand iterator.             *)
(*                                                                         *)
(* One step of the model is one iteration of the loop of Expand::next.    *)
(* The CST of the root file is an arbitrary finite sequence of children:   *)
(* the model draws each child when the cursor (iterator.next()) reaches    *)
(* it, and may end the file at any point.                                  *)
(***************************************************************************)
EXTENDS Naturals, Integers, Sequences, FiniteSets, TLC

(***************************************************************************)
(* Bounds of the model                                                     *)
(***************************************************************************)
\* deepest nesting of conditionals in the modelled files: #if/#ifdef/#ifndef
\* children are drawn only while fewer than that many conditionals are open
MaxDepth == 3
\* the files written for the #extension directives hold up to MaxExt + 1 of
\* them: #extension children are drawn only while fewer were pushed on the
\* extension stack
MaxExt == 1
\* the files written for the parser errors have up to MaxErrors + 1 of them
MaxErrors == 1
\* number of successive contents a file of the file system takes
MaxVersion == 2
\* number of children of the files whose children and events are recorded
MaxChildren == 3

(***************************************************************************)
(* Identifiers. A name is the sequence of its characters, so that          *)
(* starts_with("GL_") is computed on the text.                             *)
(***************************************************************************)
NameA == <<"A">>
NameP == <<"P">>
NameX == <<"X">>
NameB == <<"B">>
NameF == <<"F">>
NameGLX == <<"G", "L", "_", "X">>
NameCoreProfile == <<"G", "L", "_", "c", "o", "r", "e", "_", "p", "r", "o", "f", "i", "l", "e">>
NameLine == <<"_", "_", "L", "I", "N", "E", "_", "_">>
NameFile == <<"_", "_", "F", "I", "L", "E", "_", "_">>
NameVersion == <<"_", "_", "V", "E", "R", "S", "I", "O", "N", "_", "_">>

GLPrefix == <<"G", "L", "_">>

starts_with(s, prefix) ==
    /\ Len(s) >= Len(prefix)
    /\ SubSeq(s, 1, Len(prefix)) = prefix

\* identifiers named by the #define and #undef of the modelled files
DirNames == {NameA, NameP, NameGLX, NameCoreProfile, NameLine, NameFile, NameVersion}

\* identifiers named by the #ifdef and #ifndef of the modelled files
CondNames == {NameA, NameCoreProfile}

\* identifier tokens of the modelled files
TokNames == {NameA, NameX}

(***************************************************************************)
(* ProcessorState                                                          *)
(***************************************************************************)
RootFile == 1

\* Definition::Regular(Rc<Define>, FileId) of an object-like Define
Regular(name, body, prot, file) ==
    [kind |-> "Regular", name |-> name, body |-> body, protected |-> prot, file |-> file,
     function_like |-> FALSE]

\* Definition::Regular of the Define a #define node decodes to
RegularOf(node, file) ==
    [Regular(node.ident, node.body, FALSE, file) EXCEPT !.function_like = node.function_like]

\* Definition::Line, Definition::File, Definition::Version
Builtin(kind, name) == [kind |-> kind, name |-> name]

\* Definition::protected(): the flag of a Regular definition; the built-ins
\* are always protected
protected(def) == IF def.kind = "Regular" THEN def.protected ELSE TRUE

\* HashMap::from_iter over (definition.name(), definition)
MapOf(defs) == [n \in {d.name : d \in defs} |-> CHOOSE d \in defs : d.name = n]

DefaultDefinitions ==
    MapOf({ Regular(NameCoreProfile, <<<<"1">>>>, TRUE, 0),
            Builtin("Line", NameLine),
            Builtin("File", NameFile),
            Builtin("Version", NameVersion) })

DefaultVersion == 110

AllDisable == [name |-> "All", behavior |-> "disable"]

\* impl Default for ProcessorState
DefaultState ==
    [ extension_stack |-> <<AllDisable>>,
      include_mode |-> "None",
      definitions |-> DefaultDefinitions,
      version |-> DefaultVersion ]

\* states a caller hands to Processor::new: the default one, and the default
\* one pre-seeded with a protected and an unprotected definition
InitialStates ==
    { DefaultState,
      [DefaultState EXCEPT !.definitions =
          @ @@ (NameP :> Regular(NameP, <<<<"7">>>>, TRUE, 0))
            @@ (NameA :> Regular(NameA, <<<<"1">>>>, FALSE, 0))] }

contains_key(map, key) == key \in DOMAIN map

remove(map, key) == [k \in DOMAIN map \ {key} |-> map[k]]

insert(map, key, value) == [k \in DOMAIN map \cup {key} |-> IF k = key THEN value ELSE map[k]]

(***************************************************************************)
(* IfState and the mask stack                                              *)
(***************************************************************************)
IfNone == [tag |-> "None"]
IfActive(else_seen) == [tag |-> "Active", else_seen |-> else_seen]
IfOne(else_seen) == [tag |-> "One", else_seen |-> else_seen]

IsActiveFrame(f) == f.tag = "Active"

pop(stack) == SubSeq(stack, 1, Len(stack) - 1)

last(stack) == stack[Len(stack)]

\* mask_stack.last().map(|top| matches!(*top, IfState::Active { .. })).unwrap_or(true)
TopIsActive(stack) == IF stack = <<>> THEN TRUE ELSE IsActiveFrame(last(stack))

(***************************************************************************)
(* Events                                                                  *)
(***************************************************************************)
\* Event::directive(DirectiveResult<_>) and Event::directive(DirectiveKind)
DirectiveEvent(kind, node) == [type |-> "Directive", kind |-> kind, node |-> node]

ErrorEvent(kind) == [type |-> "Error", kind |-> kind]

\* Event::error of a parser error: index is its rank in the list sorted by
\* start, reached tells whether it starts at or before the end of the child
\* the iterator has yielded
ParseError(index, reached) ==
    [type |-> "Error", kind |-> "Parse", index |-> index, reached |-> reached]

ProtectedDefine(ident, is_undef) ==
    [type |-> "Error", kind |-> "ProtectedDefine", ident |-> ident, is_undef |-> is_undef]

ErrorDirective(message) ==
    [type |-> "Error", kind |-> "ErrorDirective", message |-> message]

Unhandled(node) == [type |-> "Error", kind |-> "Unhandled", node |-> node]

TokenEvent(token) == [type |-> "Token", text |-> token.text]

EnterFile(file_id) == [type |-> "EnterFile", file_id |-> file_id]

IoError == [type |-> "IoError"]

\* what one iteration of the loop of Expand::next hands back: an event, the
\* end of the stream (None), or nothing yet (the loop goes on)
EndOfStream == [type |-> "End"]
Continue == [type |-> "Continue"]

(***************************************************************************)
(* CST children: directive nodes and tokens. `ok` is the outcome of the    *)
(* typed decoder (node.try_into()): a node that fails to decode carries    *)
(* no payload.                                                             *)
(***************************************************************************)
IdentNodes(kind, names) ==
    {[tag |-> "Node", kind |-> kind, ok |-> TRUE, ident |-> n] : n \in names}
        \cup {[tag |-> "Node", kind |-> kind, ok |-> FALSE]}

DefineNode(ident, body, function_like) ==
    [tag |-> "Node", kind |-> "PP_DEFINE", ok |-> TRUE, ident |-> ident, body |-> body,
     function_like |-> function_like]

DefineNodes ==
    {DefineNode(n, b, FALSE) : n \in DirNames, b \in {<<<<"2">>>>}}
        \cup {[tag |-> "Node", kind |-> "PP_DEFINE", ok |-> FALSE]}

\* #define A A, #define A B, #define B A and the function-like #define F() 3
MacroDefineNodes ==
    {DefineNode(NameA, <<NameA>>, FALSE), DefineNode(NameA, <<NameB>>, FALSE),
     DefineNode(NameB, <<NameA>>, FALSE), DefineNode(NameF, <<<<"3">>>>, TRUE)}

VersionNodes ==
    {[tag |-> "Node", kind |-> "PP_VERSION", ok |-> TRUE, number |-> 300],
     [tag |-> "Node", kind |-> "PP_VERSION", ok |-> FALSE]}

GL_ARB_SHADING_LANGUAGE_INCLUDE == "GL_ARB_shading_language_include"
GL_GOOGLE_INCLUDE_DIRECTIVE == "GL_GOOGLE_include_directive"

ExtensionNodes ==
    {[tag |-> "Node", kind |-> "PP_EXTENSION", ok |-> TRUE, name |-> n, behavior |-> b] :
        n \in {"All", GL_ARB_SHADING_LANGUAGE_INCLUDE, GL_GOOGLE_INCLUDE_DIRECTIVE},
        b \in {"enable", "disable"}}
        \cup {[tag |-> "Node", kind |-> "PP_EXTENSION", ok |-> FALSE]}

ErrorNodes ==
    {[tag |-> "Node", kind |-> "PP_ERROR", ok |-> TRUE, message |-> "m"],
     [tag |-> "Node", kind |-> "PP_ERROR", ok |-> FALSE]}

PlainNode(kind) == [tag |-> "Node", kind |-> kind]

\* the nodes that open a conditional
OpeningKinds == {"PP_IFDEF", "PP_IFNDEF", "PP_IF"}

OpeningNodes ==
    IdentNodes("PP_IFDEF", CondNames) \cup IdentNodes("PP_IFNDEF", CondNames)
        \cup {PlainNode("PP_IF")}

OtherNodes ==
    DefineNodes \cup IdentNodes("PP_UNDEF", DirNames) \cup VersionNodes \cup ExtensionNodes
        \cup ErrorNodes
        \cup {PlainNode(k) : k \in {"PP_ELSE", "PP_ENDIF", "PP_EMPTY", "PP_INCLUDE", "PP_LINE"}}

IdentToken(name) == [tag |-> "Token", kind |-> "IDENT_KW", text |-> name]

OtherToken(kind, text) == [tag |-> "Token", kind |-> kind, text |-> text]

Tokens == {IdentToken(n) : n \in TokNames} \cup {OtherToken("WS", <<" ">>)}

\* the tokens of the files written for the macros
MacroTokens ==
    {IdentToken(n) : n \in {NameA, NameB, NameF}}
        \cup {OtherToken("WS", <<" ">>), OtherToken("LPAREN", <<"(">>),
              OtherToken("RPAREN", <<")">>)}

NoChild == [tag |-> "NoChild"]

IsNode(c) == c.tag = "Node"
IsToken(c) == c.tag = "Token"

(***************************************************************************)
(* Processor::handle_node, one operator per arm of the match. Each takes   *)
(* the node and the values behind the &mut arguments and yields the        *)
(* returned events with the updated values.                                *)
(***************************************************************************)
Result(events, mask_active, mask_stack, current_state) ==
    [events |-> events, mask_active |-> mask_active, mask_stack |-> mask_stack,
     current_state |-> current_state]

\* ExtensionBehavior::is_active
is_active(behavior) == behavior # "disable"

\* PP_EMPTY => discard
HandleEmpty(node, mask_active, mask_stack, current_state, current_file) ==
    Result(<<>>, mask_active, mask_stack, current_state)

HandleVersion(node, mask_active, mask_stack, current_state, current_file) ==
    IF mask_active
    THEN Result(<<DirectiveEvent("Version", node)>>, mask_active, mask_stack,
                IF node.ok THEN [current_state EXCEPT !.version = node.number]
                           ELSE current_state)
    ELSE Result(<<>>, mask_active, mask_stack, current_state)

TargetIncludeMode(name) ==
    IF name = GL_ARB_SHADING_LANGUAGE_INCLUDE THEN "ArbInclude"
    ELSE IF name = GL_GOOGLE_INCLUDE_DIRECTIVE THEN "GoogleInclude"
    ELSE "NoTarget"

\* HandleExtension where a disabled extension clears only its own mode
HandleExtensionOwnMode(node, mask_active, mask_stack, current_state, current_file) ==
    IF mask_active
    THEN LET pushed == [current_state EXCEPT !.extension_stack =
                            Append(@, [name |-> node.name, behavior |-> node.behavior])]
             target == TargetIncludeMode(node.name)
             new_state ==
                 IF ~node.ok THEN current_state
                 ELSE IF target = "NoTarget" THEN pushed
                 ELSE IF is_active(node.behavior)
                      THEN [pushed EXCEPT !.include_mode = target]
                      ELSE IF current_state.include_mode = target
                           THEN [pushed EXCEPT !.include_mode = "None"]
                           ELSE pushed
         IN Result(<<DirectiveEvent("Extension", node)>>, mask_active, mask_stack, new_state)
    ELSE Result(<<>>, mask_active, mask_stack, current_state)

HandleExtension(node, mask_active, mask_stack, current_state, current_file) ==
    IF mask_active
    THEN LET pushed == [current_state EXCEPT !.extension_stack =
                            Append(@, [name |-> node.name, behavior |-> node.behavior])]
             target == TargetIncludeMode(node.name)
             new_state ==
                 IF ~node.ok THEN current_state
                 ELSE IF target = "NoTarget" THEN pushed
                 ELSE IF is_active(node.behavior)
                      THEN [pushed EXCEPT !.include_mode = target]
                      ELSE [pushed EXCEPT !.include_mode = "None"]
         IN Result(<<DirectiveEvent("Extension", node)>>, mask_active, mask_stack, new_state)
    ELSE Result(<<>>, mask_active, mask_stack, current_state)

\* HandleDefine with the protected() test of the occupied entry left out
HandleDefineOverwritesProtected(node, mask_active, mask_stack, current_state, current_file) ==
    IF mask_active
    THEN LET definitions == current_state.definitions
             definition == RegularOf(node, current_file)
             protected_error ==
                 IF ~node.ok THEN FALSE ELSE starts_with(node.ident, GLPrefix)
             new_state ==
                 IF ~node.ok \/ protected_error THEN current_state
                 ELSE [current_state EXCEPT
                          !.definitions = insert(definitions, node.ident, definition)]
         IN Result(<<DirectiveEvent("Define", node)>>
                       \o (IF protected_error
                           THEN <<ProtectedDefine(node.ident, FALSE)>> ELSE <<>>),
                   mask_active, mask_stack, new_state)
    ELSE Result(<<>>, mask_active, mask_stack, current_state)

\* HandleDefine keeping the definition an occupied entry already holds
HandleDefineKeepsOld(node, mask_active, mask_stack, current_state, current_file) ==
    IF mask_active
    THEN LET definitions == current_state.definitions
             definition == RegularOf(node, current_file)
             protected_error ==
                 IF ~node.ok THEN FALSE
                 ELSE IF starts_with(node.ident, GLPrefix) THEN TRUE
                 ELSE contains_key(definitions, node.ident)
                          /\ protected(definitions[node.ident])
             new_state ==
                 IF ~node.ok \/ protected_error \/ contains_key(definitions, node.ident)
                 THEN current_state
                 ELSE [current_state EXCEPT
                          !.definitions = insert(definitions, node.ident, definition)]
         IN Result(<<DirectiveEvent("Define", node)>>
                       \o (IF protected_error
                           THEN <<ProtectedDefine(node.ident, FALSE)>> ELSE <<>>),
                   mask_active, mask_stack, new_state)
    ELSE Result(<<>>, mask_active, mask_stack, current_state)

\* HandleDefine without the test of the emit bit
HandleDefineUnmasked(node, mask_active, mask_stack, current_state, current_file) ==
    LET definitions == current_state.definitions
        definition == RegularOf(node, current_file)
        protected_error ==
            IF ~node.ok THEN FALSE
            ELSE IF starts_with(node.ident, GLPrefix) THEN TRUE
            ELSE contains_key(definitions, node.ident)
                     /\ protected(definitions[node.ident])
        new_state ==
            IF ~node.ok \/ protected_error THEN current_state
            ELSE [current_state EXCEPT
                     !.definitions = insert(definitions, node.ident, definition)]
    IN Result(<<DirectiveEvent("Define", node)>>
                  \o (IF protected_error
                      THEN <<ProtectedDefine(node.ident, FALSE)>> ELSE <<>>),
              mask_active, mask_stack, new_state)

HandleDefine(node, mask_active, mask_stack, current_state, current_file) ==
    IF mask_active
    THEN LET definitions == current_state.definitions
             definition == RegularOf(node, current_file)
             protected_error ==
                 IF ~node.ok THEN FALSE
                 ELSE IF starts_with(node.ident, GLPrefix) THEN TRUE
                 ELSE contains_key(definitions, node.ident)
                          /\ protected(definitions[node.ident])
             new_state ==
                 IF ~node.ok \/ protected_error THEN current_state
                 ELSE [current_state EXCEPT
                          !.definitions = insert(definitions, node.ident, definition)]
         IN Result(<<DirectiveEvent("Define", node)>>
                       \o (IF protected_error
                           THEN <<ProtectedDefine(node.ident, FALSE)>> ELSE <<>>),
                   mask_active, mask_stack, new_state)
    ELSE Result(<<>>, mask_active, mask_stack, current_state)

HandleIfDef(node, mask_active, mask_stack, current_state, current_file) ==
    IF mask_active
    THEN IF node.ok
         THEN Result(<<DirectiveEvent("IfDef", node)>>,
                     contains_key(current_state.definitions, node.ident),
                     Append(mask_stack, IfActive(FALSE)), current_state)
         ELSE Result(<<DirectiveEvent("IfDef", node)>>, mask_active, mask_stack,
                     current_state)
    ELSE Result(<<>>, mask_active, Append(mask_stack, IfNone), current_state)

HandleIfNDef(node, mask_active, mask_stack, current_state, current_file) ==
    IF mask_active
    THEN IF node.ok
         THEN Result(<<DirectiveEvent("IfNDef", node)>>,
                     ~contains_key(current_state.definitions, node.ident),
                     Append(mask_stack, IfActive(FALSE)), current_state)
         ELSE Result(<<DirectiveEvent("IfNDef", node)>>, mask_active, mask_stack,
                     current_state)
    ELSE Result(<<>>, mask_active, Append(mask_stack, IfNone), current_state)

\* HandleElse with a stray #else taken for the #else of an open conditional
HandleElseOpensGroup(node, mask_active, mask_stack, current_state, current_file) ==
    IF mask_stack # <<>>
    THEN LET top == last(mask_stack)
             popped == pop(mask_stack)
         IN IF top.tag = "None"
            THEN Result(<<DirectiveEvent("Else", node)>>, TopIsActive(popped),
                        Append(popped, IfActive(TRUE)), current_state)
            ELSE IF top.else_seen
                 THEN Result(<<ErrorEvent("ExtraElse")>>, mask_active, popped,
                             current_state)
                 ELSE Result(<<DirectiveEvent("Else", node)>>, FALSE,
                             Append(popped, IfOne(TRUE)), current_state)
    ELSE Result(<<DirectiveEvent("Else", node)>>, FALSE,
                Append(mask_stack, IfOne(TRUE)), current_state)

\* HandleElse pushing a One frame that has seen no #else
HandleElseOneUnseen(node, mask_active, mask_stack, current_state, current_file) ==
    IF mask_stack # <<>>
    THEN LET top == last(mask_stack)
             popped == pop(mask_stack)
         IN IF top.tag = "None"
            THEN Result(<<DirectiveEvent("Else", node)>>, TopIsActive(popped),
                        Append(popped, IfActive(TRUE)), current_state)
            ELSE IF top.else_seen
                 THEN \* extra #else: returns with the frame popped
                      Result(<<ErrorEvent("ExtraElse")>>, mask_active, popped,
                             current_state)
                 ELSE Result(<<DirectiveEvent("Else", node)>>, FALSE,
                             Append(popped, IfOne(FALSE)), current_state)
    ELSE \* stray #else
         Result(<<ErrorEvent("ExtraElse")>>, mask_active, mask_stack, current_state)

HandleElse(node, mask_active, mask_stack, current_state, current_file) ==
    IF mask_stack # <<>>
    THEN LET top == last(mask_stack)
             popped == pop(mask_stack)
         IN IF top.tag = "None"
            THEN Result(<<DirectiveEvent("Else", node)>>, TopIsActive(popped),
                        Append(popped, IfActive(TRUE)), current_state)
            ELSE IF top.else_seen
                 THEN \* extra #else: returns with the frame popped
                      Result(<<ErrorEvent("ExtraElse")>>, mask_active, popped,
                             current_state)
                 ELSE Result(<<DirectiveEvent("Else", node)>>, FALSE,
                             Append(popped, IfOne(TRUE)), current_state)
    ELSE \* stray #else
         Result(<<ErrorEvent("ExtraElse")>>, mask_active, mask_stack, current_state)

\* HandleEndIf looking at the top frame without popping it
HandleEndIfKeepsFrame(node, mask_active, mask_stack, current_state, current_file) ==
    IF mask_stack # <<>>
    THEN LET active == TopIsActive(mask_stack)
         IN Result(IF active THEN <<DirectiveEvent("EndIf", node)>> ELSE <<>>,
                   active, mask_stack, current_state)
    ELSE Result(<<ErrorEvent("ExtraEndIf")>>, mask_active, mask_stack, current_state)

HandleEndIf(node, mask_active, mask_stack, current_state, current_file) ==
    IF mask_stack # <<>>
    THEN LET popped == pop(mask_stack)
             active == TopIsActive(popped)
         IN Result(IF active THEN <<DirectiveEvent("EndIf", node)>> ELSE <<>>,
                   active, popped, current_state)
    ELSE \* stray #endif
         Result(<<ErrorEvent("ExtraEndIf")>>, mask_active, mask_stack, current_state)

\* HandleUndef without the test of the GL_ prefix
HandleUndefNoPrefix(node, mask_active, mask_stack, current_state, current_file) ==
    IF mask_active
    THEN LET definitions == current_state.definitions
             defined == contains_key(definitions, node.ident)
             protected_ident ==
                 IF ~node.ok THEN FALSE
                 ELSE defined /\ protected(definitions[node.ident])
             new_state ==
                 IF node.ok /\ ~protected_ident /\ defined
                 THEN [current_state EXCEPT !.definitions = remove(definitions, node.ident)]
                 ELSE current_state
         IN Result(<<DirectiveEvent("Undef", node)>>
                       \o (IF protected_ident
                           THEN <<ProtectedDefine(node.ident, TRUE)>> ELSE <<>>),
                   mask_active, mask_stack, new_state)
    ELSE Result(<<>>, mask_active, mask_stack, current_state)

\* HandleUndef leaving the entry of an unprotected definition in the table
HandleUndefKeepsEntry(node, mask_active, mask_stack, current_state, current_file) ==
    IF mask_active
    THEN LET definitions == current_state.definitions
             defined == contains_key(definitions, node.ident)
             protected_ident ==
                 IF ~node.ok THEN FALSE
                 ELSE IF starts_with(node.ident, GLPrefix) THEN TRUE
                 ELSE defined /\ protected(definitions[node.ident])
         IN Result(<<DirectiveEvent("Undef", node)>>
                       \o (IF protected_ident
                           THEN <<ProtectedDefine(node.ident, TRUE)>> ELSE <<>>),
                   mask_active, mask_stack, current_state)
    ELSE Result(<<>>, mask_active, mask_stack, current_state)

\* HandleUndef with the protected() test of the entry left out
HandleUndefRemovesProtected(node, mask_active, mask_stack, current_state, current_file) ==
    IF mask_active
    THEN LET definitions == current_state.definitions
             defined == contains_key(definitions, node.ident)
             protected_ident == node.ok /\ starts_with(node.ident, GLPrefix)
             new_state ==
                 IF node.ok /\ ~protected_ident /\ defined
                 THEN [current_state EXCEPT !.definitions = remove(definitions, node.ident)]
                 ELSE current_state
         IN Result(<<DirectiveEvent("Undef", node)>>
                       \o (IF protected_ident
                           THEN <<ProtectedDefine(node.ident, TRUE)>> ELSE <<>>),
                   mask_active, mask_stack, new_state)
    ELSE Result(<<>>, mask_active, mask_stack, current_state)

HandleUndef(node, mask_active, mask_stack, current_state, current_file) ==
    IF mask_active
    THEN LET definitions == current_state.definitions
             defined == contains_key(definitions, node.ident)
             protected_ident ==
                 IF ~node.ok THEN FALSE
                 ELSE IF starts_with(node.ident, GLPrefix) THEN TRUE
                 ELSE defined /\ protected(definitions[node.ident])
             new_state ==
                 IF node.ok /\ ~protected_ident /\ defined
                 THEN [current_state EXCEPT !.definitions = remove(definitions, node.ident)]
                 ELSE current_state
         IN Result(<<DirectiveEvent("Undef", node)>>
                       \o (IF protected_ident
                           THEN <<ProtectedDefine(node.ident, TRUE)>> ELSE <<>>),
                   mask_active, mask_stack, new_state)
    ELSE Result(<<>>, mask_active, mask_stack, current_state)

\* HandleError without the test of the emit bit
HandleErrorUnmasked(node, mask_active, mask_stack, current_state, current_file) ==
    Result(<<DirectiveEvent("Error", node)>>
               \o (IF node.ok THEN <<ErrorDirective(node.message)>> ELSE <<>>),
           mask_active, mask_stack, current_state)

\* HandleError pushing the error event ahead of the directive event
HandleErrorFirst(node, mask_active, mask_stack, current_state, current_file) ==
    IF mask_active
    THEN Result((IF node.ok THEN <<ErrorDirective(node.message)>> ELSE <<>>)
                    \o <<DirectiveEvent("Error", node)>>,
                mask_active, mask_stack, current_state)
    ELSE Result(<<>>, mask_active, mask_stack, current_state)

HandleError(node, mask_active, mask_stack, current_state, current_file) ==
    IF mask_active
    THEN Result(<<DirectiveEvent("Error", node)>>
                    \o (IF node.ok THEN <<ErrorDirective(node.message)>> ELSE <<>>),
                mask_active, mask_stack, current_state)
    ELSE Result(<<>>, mask_active, mask_stack, current_state)

\* the `_` arm treating every kind as it treats PP_IF
HandleOtherAsIf(node, mask_active, mask_stack, current_state, current_file) ==
    Result(<<>>, FALSE, Append(mask_stack, IfNone), current_state)

\* the `_` arm: PP_IF and every kind without an arm of its own
HandleOther(node, mask_active, mask_stack, current_state, current_file) ==
    LET is_if == node.kind = "PP_IF"
        active == IF is_if THEN FALSE ELSE mask_active
        stack == IF is_if THEN Append(mask_stack, IfNone) ELSE mask_stack
    IN Result(IF active THEN <<Unhandled(node)>> ELSE <<>>, active, stack, current_state)

handle_node(node, mask_active, mask_stack, current_state, current_file) ==
    CASE node.kind = "PP_EMPTY" ->
            HandleEmpty(node, mask_active, mask_stack, current_state, current_file)
      [] node.kind = "PP_VERSION" ->
            HandleVersion(node, mask_active, mask_stack, current_state, current_file)
      [] node.kind = "PP_EXTENSION" ->
            HandleExtension(node, mask_active, mask_stack, current_state, current_file)
      [] node.kind = "PP_DEFINE" ->
            HandleDefine(node, mask_active, mask_stack, current_state, current_file)
      [] node.kind = "PP_IFDEF" ->
            HandleIfDef(node, mask_active, mask_stack, current_state, current_file)
      [] node.kind = "PP_IFNDEF" ->
            HandleIfNDef(node, mask_active, mask_stack, current_state, current_file)
      [] node.kind = "PP_ELSE" ->
            HandleElse(node, mask_active, mask_stack, current_state, current_file)
      [] node.kind = "PP_ENDIF" ->
            HandleEndIf(node, mask_active, mask_stack, current_state, current_file)
      [] node.kind = "PP_UNDEF" ->
            HandleUndef(node, mask_active, mask_stack, current_state, current_file)
      [] node.kind = "PP_ERROR" ->
            HandleError(node, mask_active, mask_stack, current_state, current_file)
      [] OTHER ->
            HandleOther(node, mask_active, mask_stack, current_state, current_file)

(***************************************************************************)
(* Macro invocation (definition.rs, outside src/): handle_token only       *)
(* distinguishes the three results of MacroInvocation::parse followed by   *)
(* substitute: expanded tokens, not an invocation, or an error.            *)
(***************************************************************************)
BuiltinValue(definition, current_state, current_file) ==
    CASE definition.kind = "Line" -> 1
      [] definition.kind = "File" -> current_file
      [] definition.kind = "Version" -> current_state.version

RECURSIVE Rescan(_, _, _, _)
\* the rescan of a replacement list: a name in progress is emitted verbatim
\* (painted), an object-like macro is replaced by the rescan of its body, a
\* built-in by its value, and a function-like name that no `(` follows is
\* emitted verbatim
Rescan(texts, in_progress, current_state, current_file) ==
    IF texts = <<>> THEN <<>>
    ELSE LET text == Head(texts)
             definitions == current_state.definitions
             rest == Rescan(Tail(texts), in_progress, current_state, current_file)
         IN IF ~contains_key(definitions, text) \/ text \in in_progress
            THEN <<text>> \o rest
            ELSE IF definitions[text].kind # "Regular"
            THEN <<BuiltinValue(definitions[text], current_state, current_file)>> \o rest
            ELSE IF definitions[text].function_like
            THEN <<text>> \o rest
            ELSE Rescan(definitions[text].body, in_progress \cup {text},
                        current_state, current_file) \o rest

TokensOf(texts) == [i \in 1..Len(texts) |-> [type |-> "Token", text |-> texts[i]]]

\* the argument list `()` that new_iterator has gone past
EmptyArguments == <<OtherToken("LPAREN", <<"(">>), OtherToken("RPAREN", <<")">>)>>

\* what MacroInvocation::parse followed by substitute answers: the events of
\* the expansion and the texts new_iterator has gone past, or no invocation
\* (a function-like name that no `(` follows), or an error (an argument list
\* that does not end, or of the wrong length)
MacroOutcomes(definition, current_state, current_file) ==
    IF definition.kind # "Regular"
    THEN { [tag |-> "Expanded", skipped |-> <<>>,
            events |-> <<[type |-> "Token",
                          text |-> BuiltinValue(definition, current_state, current_file)]>>] }
    ELSE IF definition.function_like
    THEN { [tag |-> "Expanded", skipped |-> EmptyArguments,
            events |-> TokensOf(Rescan(definition.body, {definition.name},
                                       current_state, current_file))],
           [tag |-> "NotInvocation"],
           [tag |-> "Error"] }
    ELSE { [tag |-> "Expanded", skipped |-> <<>>,
            events |-> TokensOf(Rescan(definition.body, {definition.name},
                                       current_state, current_file))] }

\* ArrayVec::swap_pop(0): the first element is removed and the last one takes
\* its place
swap_pop_rest(events) ==
    IF Len(events) <= 1 THEN <<>>
    ELSE <<events[Len(events)]>> \o SubSeq(events, 2, Len(events) - 1)

\* VecDeque::pop_front
pop_front_rest(events) == SubSeq(events, 2, Len(events))

(***************************************************************************)
(* Processor::parse and the file system behind it. A processor is the      *)
(* record of its three maps; the content of a file is the number of its    *)
(* version, and the Ast of a file is the content it was parsed from.       *)
(***************************************************************************)
InputPaths == {"a", "./a", "b"}

\* FileSystem::canonicalize, when it succeeds
Canonical(path) == IF path = "b" THEN "/b" ELSE "/a"

CanonicalPaths == {Canonical(path) : path \in InputPaths}

\* the path Expand::new is given
RootPath == "a"

EmptyMap == [k \in {} |-> 0]

\* Processor::new_with_fs
NewProcessor == [file_cache |-> EmptyMap, file_ids |-> EmptyMap, canonical_paths |-> EmptyMap]

\* Parser::new(&input).parse()
Parsed(input) == [parsed_from |-> input]

ParseOk(file_id, ast) == [ok |-> TRUE, file_id |-> file_id, ast |-> ast]

ParseErr == [ok |-> FALSE]

\* what one call of parse leaves and answers, and the file system calls it made
Outcome(processor, result, canonicalized, read) ==
    [processor |-> processor, result |-> result, canonicalized |-> canonicalized,
     read |-> read]

\* a file id counted from zero
ZeroBasedFileId(file_ids) == Cardinality(DOMAIN file_ids)

\* FileId::new(NonZeroU32::new_unchecked(self.file_ids.len() as u32 + 1)); the
\* sum does not wrap while the map holds fewer than 2^32 - 1 paths
NewFileId(file_ids) == Cardinality(DOMAIN file_ids) + 1

\* a lookup that never finds the canonical path of an input path
NeverKnown(canonical_paths, path) == FALSE

\* self.canonical_paths.get(path) is Some
KnownPath(canonical_paths, path) == contains_key(canonical_paths, path)

\* Processor::parse keeping a CST for a file whose read failed
parse_caches_unread(processor, path, files) ==
    LET known == KnownPath(processor.canonical_paths, path)
        canonical_path == IF known THEN processor.canonical_paths[path] ELSE Canonical(path)
        with_path == [processor EXCEPT
                         !.canonical_paths = insert(@, path, canonical_path)]
        allocated == contains_key(processor.file_ids, canonical_path)
        file_id == IF allocated THEN processor.file_ids[canonical_path]
                   ELSE NewFileId(processor.file_ids)
        with_id == [with_path EXCEPT !.file_ids = insert(@, canonical_path, file_id)]
        cached == contains_key(processor.file_cache, file_id)
        ast == Parsed(files[canonical_path])
        with_ast == [with_id EXCEPT !.file_cache = insert(@, file_id, ast)]
        found == IF cached
                 THEN {Outcome(with_id, ParseOk(file_id, processor.file_cache[file_id]),
                               ~known, FALSE)}
                 ELSE {Outcome(with_ast, ParseOk(file_id, ast), ~known, TRUE),
                       Outcome(with_ast, ParseErr, ~known, TRUE)}
    IN IF known THEN found
       ELSE found \cup {Outcome(processor, ParseErr, TRUE, FALSE)}

\* Processor::parse: the outcomes of one call, one for each answer of the
\* file system (fs.canonicalize and fs.read succeed or fail; files is the
\* content of each canonical path)
parse(processor, path, files) ==
    LET known == KnownPath(processor.canonical_paths, path)
        canonical_path == IF known THEN processor.canonical_paths[path] ELSE Canonical(path)
        with_path == [processor EXCEPT
                         !.canonical_paths = insert(@, path, canonical_path)]
        allocated == contains_key(processor.file_ids, canonical_path)
        file_id == IF allocated THEN processor.file_ids[canonical_path]
                   ELSE NewFileId(processor.file_ids)
        with_id == [with_path EXCEPT !.file_ids = insert(@, canonical_path, file_id)]
        cached == contains_key(processor.file_cache, file_id)
        ast == Parsed(files[canonical_path])
        with_ast == [with_id EXCEPT !.file_cache = insert(@, file_id, ast)]
        found == IF cached
                 THEN {Outcome(with_id, ParseOk(file_id, processor.file_cache[file_id]),
                               ~known, FALSE)}
                 ELSE {Outcome(with_ast, ParseOk(file_id, ast), ~known, TRUE),
                       Outcome(with_id, ParseErr, ~known, TRUE)}
    IN IF known THEN found
       ELSE found \cup {Outcome(processor, ParseErr, TRUE, FALSE)}

(***************************************************************************)
(* The driver (Expand)                                                     *)
(***************************************************************************)
VARIABLES
    file,           \* the class of the file read: the kinds of its nodes, their
                    \* nesting, the numbers of its #extension directives and of its
                    \* parser errors, its tokens and #define directives, and whether
                    \* its children and events are recorded
    state,          \* tag of ExpandState
    events,         \* the queue of PendingEvents / ExpandedTokens
    node_or_token,  \* the child kept by PendingOne
    errors,         \* number of parser errors left in `errors`
    located,        \* how many of them start at or before the end of the last child
    mask_stack,     \* Expand::mask_stack
    mask_active,    \* Expand::mask_active, the emit bit
    current_state,  \* Processor::current_state
    returned,       \* what the last iteration of the loop handed back
    \* history kept for the properties
    handled,        \* the child the last step handled, if it handled one
    before,         \* the values on entry to that handling
    open_ifs,       \* #if/#ifdef/#ifndef seen and not yet closed by an #endif
    outer_emit,     \* for each frame, the emit bit when it was pushed
    toplevel,       \* position inside a top-level #ifdef ... #else ... #endif
    must_skip,      \* position inside a group nested in an excluded group
    if_group,       \* inside the first group of an #if: the depth of that #if
    masked_reach,   \* the highest rank of a parser error that starts at or before
                    \* a child met with the emit bit false
    unterminated,   \* UnterminatedConditional errors handed back so far
    produced,       \* the events the last handling queued, while they are handed back
    delivered,      \* those of them handed back so far
    reported,       \* the ranks of the parser errors handed back so far
    \* the processor's files
    processor,      \* Processor::file_cache, file_ids and canonical_paths
    fs,             \* Processor::fs: the content of each canonical path
    last_parse,     \* the last call of parse: its path, its outcome, and
                    \* whether a call for that path had succeeded before
    first_parse,    \* for each input path, the answer of its first successful parse
    failed_read,    \* for each canonical path whose read failed, the FileId it had then
    \* the record of the files that are recorded
    source,         \* the children the iterator has gone past, in order
    output,         \* the events handed back, in order
    ahead,          \* what the last macro invocation parser saw after the name:
                    \* "lparen", "not_lparen", or "any" when it did not look
    first_run       \* which call of process this is and, for the files that are
                    \* processed twice, what the first call read and handed back

vars ==
    <<file, state, events, node_or_token, errors, mask_stack, mask_active, current_state,
      returned, handled, before, open_ifs, outer_emit, toplevel, must_skip,
      unterminated, produced, delivered, located, reported, processor, fs,
      last_parse, first_parse, failed_read, source, output, ahead, first_run, if_group,
      masked_reach>>

NoBefore == [tag |-> "NoBefore"]

NoParse == [path |-> "none"]

NoGroup == [group |-> "none"]

IsUnterminated(ev) == ev.type = "Error" /\ ev.kind = "UnterminatedConditional"

\* kinds of the nodes that track the conditionals and the definition table
ConditionalKinds ==
    OpeningKinds \cup {"PP_ELSE", "PP_ENDIF", "PP_DEFINE", "PP_UNDEF"}

AllKinds == {n.kind : n \in OpeningNodes \cup OtherNodes}

\* files nesting conditionals up to MaxDepth around tokens, #define and #undef
ConditionalFiles ==
    {[kinds |-> ConditionalKinds, nesting |-> MaxDepth, extensions |-> 0, errors |-> 1,
      tokens |-> Tokens, defines |-> DefineNodes, recorded |-> FALSE]}

\* files holding every kind of node, with at most one #extension, under at
\* most one conditional
DirectiveFiles ==
    {[kinds |-> AllKinds, nesting |-> 1, extensions |-> 1, errors |-> 1,
      tokens |-> Tokens, defines |-> DefineNodes, recorded |-> FALSE]}

\* files holding one #extension more, and #include, outside any conditional
ExtensionFiles ==
    {[kinds |-> {"PP_EXTENSION", "PP_INCLUDE"}, nesting |-> 0, extensions |-> MaxExt + 1,
      errors |-> 0, tokens |-> Tokens, defines |-> DefineNodes, recorded |-> FALSE]}

\* files the CST builder reports several errors for, holding tokens and
\* #error directives under at most one #ifdef
ErrorFiles ==
    {[kinds |-> {"PP_IFDEF", "PP_ELSE", "PP_ENDIF", "PP_ERROR"}, nesting |-> 1,
      extensions |-> 0, errors |-> MaxErrors + 1, tokens |-> Tokens,
      defines |-> DefineNodes, recorded |-> FALSE]}

\* files the CST builder reports several errors for, holding tokens and
\* #error directives and no conditional
PlainErrorFiles ==
    {[kinds |-> {"PP_ERROR"}, nesting |-> 0, extensions |-> 0, errors |-> MaxErrors + 1,
      tokens |-> Tokens, defines |-> {}, recorded |-> FALSE]}

\* files of at most MaxChildren children, all of them tokens
TokenFiles ==
    {[kinds |-> {}, nesting |-> 0, extensions |-> 0, errors |-> 1, tokens |-> Tokens,
      defines |-> {}, recorded |-> TRUE]}

\* files of at most MaxChildren children: #define of macros that name each
\* other and of a function-like macro, their names and parentheses
MacroFiles ==
    {[kinds |-> {"PP_DEFINE"}, nesting |-> 0, extensions |-> 0, errors |-> 0,
      tokens |-> MacroTokens, defines |-> MacroDefineNodes, recorded |-> TRUE]}

\* files nesting #if and #ifdef up to three deep around the token A
IfFiles ==
    {[kinds |-> {"PP_IF", "PP_IFDEF", "PP_ELSE", "PP_ENDIF"}, nesting |-> 3,
      extensions |-> 0, errors |-> 1, tokens |-> {IdentToken(NameA)}, defines |-> {},
      recorded |-> FALSE]}

\* files of at most MaxChildren children that are processed twice: #define
\* and #undef of object-like macros, and their names
RerunFiles ==
    {[kinds |-> {"PP_DEFINE", "PP_UNDEF"}, nesting |-> 0, extensions |-> 0, errors |-> 1,
      tokens |-> {IdentToken(NameA), IdentToken(NameB)},
      defines |-> {n \in MacroDefineNodes : ~n.function_like}, recorded |-> TRUE]}

\* the first call of process, nothing read yet
FirstRun == [run |-> 1, errors |-> 0, reaches |-> <<>>, source |-> <<>>, output |-> <<>>]

\* Expand::new, on a processor built from a caller's state
InitOn(files) ==
    /\ file \in files
    /\ state = "Init"
    /\ events = <<>>
    /\ node_or_token = NoChild
    /\ errors = 0
    /\ located = 0
    /\ mask_stack = <<>>
    /\ mask_active = TRUE
    /\ current_state \in InitialStates
    /\ returned = Continue
    /\ handled = NoChild
    /\ before = NoBefore
    /\ open_ifs = 0
    /\ outer_emit = <<>>
    /\ toplevel = NoGroup
    /\ must_skip = "no"
    /\ if_group = 0
    /\ masked_reach = 0
    /\ unterminated = 0
    /\ produced = <<>>
    /\ delivered = <<>>
    /\ reported = <<>>
    /\ processor = NewProcessor
    /\ fs = [c \in CanonicalPaths |-> 1]
    /\ last_parse = NoParse
    /\ first_parse = EmptyMap
    /\ failed_read = EmptyMap
    /\ source = <<>>
    /\ output = <<>>
    /\ ahead = "any"
    /\ first_run = FirstRun

Init == InitOn(ConditionalFiles)

InitDirectives == InitOn(DirectiveFiles \cup ExtensionFiles)

InitErrors == InitOn(ErrorFiles \cup PlainErrorFiles)

\* the history of a step that handles no child
NoHandling ==
    /\ handled' = NoChild
    /\ before' = NoBefore
    /\ UNCHANGED <<open_ifs, outer_emit, toplevel, must_skip, if_group>>

\* the history of a step that hands back no queued event
NoDelivery ==
    /\ produced' = <<>>
    /\ delivered' = <<>>

\* the history of a step that hands back the first event of the queue
Delivery ==
    /\ produced' = produced
    /\ delivered' = Append(delivered, events[1])

Hands(ev) ==
    /\ returned' = ev
    /\ output' = IF file.recorded /\ ev \notin {Continue, EndOfStream}
                 THEN Append(output, ev) ELSE output
    /\ reported' = IF ev.type = "Error" /\ ev.kind = "Parse"
                   THEN Append(reported, ev.index) ELSE reported
    /\ unterminated' = IF IsUnterminated(ev) THEN unterminated + 1 ELSE unterminated

\* a step that takes no child from the iterator
NoWalk == UNCHANGED <<source, ahead>>

\* the history of a step that does not call parse
NoParsing == UNCHANGED <<processor, fs, last_parse, first_parse, failed_read>>

\* one call of parse for path, with the outcome o
Parsing(path, o) ==
    /\ processor' = o.processor
    /\ last_parse' = [path |-> path, outcome |-> o, before |-> processor,
                      again |-> contains_key(first_parse, path)]
    /\ first_parse' = IF o.result.ok /\ ~contains_key(first_parse, path)
                      THEN insert(first_parse, path, o.result)
                      ELSE first_parse
    /\ failed_read' = IF ~o.result.ok /\ o.read /\ ~contains_key(failed_read, Canonical(path))
                      THEN insert(failed_read, Canonical(path),
                                  o.processor.file_ids[Canonical(path)])
                      ELSE failed_read

\* the numbers of errors the CST builder may report for the file; it reports
\* the same number when the file is read again
ParserErrors == IF first_run.run = 1 THEN 0..file.errors ELSE {first_run.errors}

\* Init staying in Init when Processor::parse fails
StepInitRetries ==
    /\ state = "Init"
    /\ NoWalk
    /\ \E o \in parse(processor, RootPath, fs), n \in ParserErrors :
          /\ Parsing(RootPath, o)
          /\ first_run' = IF file \in RerunFiles /\ first_run.run = 1
                          THEN [first_run EXCEPT !.errors = n] ELSE first_run
          /\ UNCHANGED masked_reach
          /\ IF o.result.ok
             THEN /\ state' = "Iterate"
                  /\ errors' = n
                  /\ Hands(EnterFile(o.result.file_id))
             ELSE /\ state' = "Init"
                  /\ errors' = errors
                  /\ Hands(IoError)
    /\ NoHandling
    /\ NoDelivery
    /\ UNCHANGED <<file, events, node_or_token, located, mask_stack, mask_active,
                   current_state, fs>>

\* ExpandState::Init: Processor::parse opens the root or fails
StepInit ==
    /\ state = "Init"
    /\ NoWalk
    /\ \E o \in parse(processor, RootPath, fs), n \in ParserErrors :
          /\ Parsing(RootPath, o)
          /\ first_run' = IF file \in RerunFiles /\ first_run.run = 1
                          THEN [first_run EXCEPT !.errors = n] ELSE first_run
          /\ UNCHANGED masked_reach
          /\ IF o.result.ok
             THEN /\ state' = "Iterate"
                  /\ errors' = n
                  /\ Hands(EnterFile(o.result.file_id))
             ELSE /\ state' = "Complete"
                  /\ errors' = errors
                  /\ Hands(IoError)
    /\ NoHandling
    /\ NoDelivery
    /\ UNCHANGED <<file, events, node_or_token, located, mask_stack, mask_active,
                   current_state, fs>>

\* the top frame belongs to a conditional that was opened inside an excluded
\* group and has had no #else yet
NestedInExcluded(stack, outer) ==
    /\ Len(stack) >= 2
    /\ last(stack) = IfNone
    /\ ~last(outer)

\* the history of a step that handles the child c, the mask stack becoming stack
Handling(c, stack) ==
    /\ handled' = c
    /\ produced' = events'
    /\ delivered' = <<>>
    /\ before' = [mask_active |-> mask_active, mask_stack |-> mask_stack,
                  current_state |-> current_state, outer_emit |-> outer_emit,
                  toplevel |-> toplevel, must_skip |-> must_skip, errors |-> errors,
                  if_group |-> if_group]
    /\ open_ifs' =
          IF IsNode(c) /\ c.kind \in OpeningKinds THEN open_ifs + 1
          ELSE IF IsNode(c) /\ c.kind = "PP_ENDIF" /\ open_ifs > 0 THEN open_ifs - 1
          ELSE open_ifs
    /\ outer_emit' =
          IF Len(stack) > Len(mask_stack) THEN Append(outer_emit, mask_active)
          ELSE IF Len(stack) < Len(mask_stack) THEN pop(outer_emit)
          ELSE outer_emit
    /\ toplevel' =
          IF IsToken(c) \/ c.kind \notin (OpeningKinds \cup {"PP_ELSE", "PP_ENDIF"})
          THEN toplevel
          ELSE IF c.kind = "PP_IFDEF" /\ c.ok /\ mask_stack = <<>> /\ mask_active
          THEN [group |-> "g1",
                defined |-> contains_key(current_state.definitions, c.ident)]
          ELSE IF c.kind = "PP_ELSE" /\ toplevel.group = "g1"
          THEN [toplevel EXCEPT !.group = "g2"]
          ELSE NoGroup
    /\ must_skip' =
          IF IsToken(c) \/ c.kind \notin (OpeningKinds \cup {"PP_ELSE", "PP_ENDIF"})
          THEN must_skip
          ELSE IF c.kind \in {"PP_ELSE", "PP_ENDIF"} /\ NestedInExcluded(mask_stack, outer_emit)
          THEN IF c.kind = "PP_ENDIF" THEN "after_endif" ELSE "after_else"
          ELSE "no"
    /\ if_group' =
          IF IsToken(c) \/ file \notin IfFiles THEN if_group
          ELSE IF if_group = 0 /\ c.kind = "PP_IF" THEN open_ifs + 1
          ELSE IF c.kind \in {"PP_ELSE", "PP_ENDIF"} /\ open_ifs = if_group THEN 0
          ELSE if_group

\* the record of the children the iterator has gone past
Past(children) == IF file.recorded THEN children ELSE source

\* handle_token going on, when the name is not invoked, from behind the
\* blank the invocation parser looked past
handle_token_skips_blank(token, past) ==
    LET definitions == current_state.definitions
    IN IF token.kind = "IDENT_KW" /\ contains_key(definitions, token.text)
       THEN \E outcome \in MacroOutcomes(definitions[token.text], current_state, RootFile) :
               CASE outcome.tag = "Expanded" ->
                       \* the walk goes on from new_iterator
                       /\ state' = "ExpandedTokens"
                       /\ events' = outcome.events
                       /\ source' = Past(past \o outcome.skipped)
                       /\ ahead' = "any"
                       /\ Hands(Continue)
                 [] outcome.tag = "NotInvocation" ->
                       /\ state' = "Iterate"
                       /\ events' = <<>>
                       /\ source' = Past(Append(past, OtherToken("WS", <<" ">>)))
                       /\ ahead' = "not_lparen"
                       /\ Hands(TokenEvent(token))
                 [] outcome.tag = "Error" ->
                       \* ExpandState::error_token
                       /\ state' = "PendingEvents"
                       /\ events' = <<ErrorEvent("Macro"), TokenEvent(token)>>
                       /\ source' = past
                       /\ ahead' = "lparen"
                       /\ Hands(Continue)
       ELSE /\ state' = "Iterate"
            /\ events' = <<>>
            /\ source' = past
            /\ ahead' = IF token.kind = "WS" THEN ahead ELSE "any"
            /\ Hands(TokenEvent(token))

\* handle_token queueing the token ahead of the error of a failed invocation
handle_token_before_error(token, past) ==
    LET definitions == current_state.definitions
    IN IF token.kind = "IDENT_KW" /\ contains_key(definitions, token.text)
       THEN \E outcome \in MacroOutcomes(definitions[token.text], current_state, RootFile) :
               CASE outcome.tag = "Expanded" ->
                       \* the walk goes on from new_iterator
                       /\ state' = "ExpandedTokens"
                       /\ events' = outcome.events
                       /\ source' = Past(past \o outcome.skipped)
                       /\ ahead' = "any"
                       /\ Hands(Continue)
                 [] outcome.tag = "NotInvocation" ->
                       /\ state' = "Iterate"
                       /\ events' = <<>>
                       /\ source' = past
                       /\ ahead' = "not_lparen"
                       /\ Hands(TokenEvent(token))
                 [] outcome.tag = "Error" ->
                       \* ExpandState::error_token
                       /\ state' = "PendingEvents"
                       /\ events' = <<TokenEvent(token), ErrorEvent("Macro")>>
                       /\ source' = past
                       /\ ahead' = "lparen"
                       /\ Hands(Continue)
       ELSE /\ state' = "Iterate"
            /\ events' = <<>>
            /\ source' = past
            /\ ahead' = IF token.kind = "WS" THEN ahead ELSE "any"
            /\ Hands(TokenEvent(token))

\* Expand::handle_token; past are the children the iterator has gone past,
\* the token included
handle_token(token, past) ==
    LET definitions == current_state.definitions
    IN IF token.kind = "IDENT_KW" /\ contains_key(definitions, token.text)
       THEN \E outcome \in MacroOutcomes(definitions[token.text], current_state, RootFile) :
               CASE outcome.tag = "Expanded" ->
                       \* the walk goes on from new_iterator
                       /\ state' = "ExpandedTokens"
                       /\ events' = outcome.events
                       /\ source' = Past(past \o outcome.skipped)
                       /\ ahead' = "any"
                       /\ Hands(Continue)
                 [] outcome.tag = "NotInvocation" ->
                       /\ state' = "Iterate"
                       /\ events' = <<>>
                       /\ source' = past
                       /\ ahead' = "not_lparen"
                       /\ Hands(TokenEvent(token))
                 [] outcome.tag = "Error" ->
                       \* ExpandState::error_token
                       /\ state' = "PendingEvents"
                       /\ events' = <<ErrorEvent("Macro"), TokenEvent(token)>>
                       /\ source' = past
                       /\ ahead' = "lparen"
                       /\ Hands(Continue)
       ELSE /\ state' = "Iterate"
            /\ events' = <<>>
            /\ source' = past
            /\ ahead' = IF token.kind = "WS" THEN ahead ELSE "any"
            /\ Hands(TokenEvent(token))

\* handle_node_or_token taking the definition of an identifier out of the
\* table once the identifier has been handled
handle_node_or_token_forgets(c, past) ==
    IF IsNode(c)
    THEN LET r == handle_node(c, mask_active, mask_stack, current_state, RootFile)
         IN /\ state' = "PendingEvents"
            /\ events' = r.events
            /\ mask_active' = r.mask_active
            /\ mask_stack' = r.mask_stack
            /\ current_state' = r.current_state
            /\ source' = past
            /\ ahead' = "any"
            /\ Hands(Continue)
            /\ Handling(c, r.mask_stack)
    ELSE /\ IF mask_active
            THEN handle_token(c, past)
            ELSE /\ state' = "Iterate"
                 /\ events' = <<>>
                 /\ source' = past
                 /\ ahead' = IF c.kind = "WS" THEN ahead ELSE "any"
                 /\ Hands(Continue)
         /\ current_state' =
               IF mask_active /\ contains_key(current_state.definitions, c.text)
               THEN [current_state EXCEPT !.definitions = remove(@, c.text)]
               ELSE current_state
         /\ UNCHANGED <<mask_active, mask_stack>>
         /\ Handling(c, mask_stack)

\* Expand::handle_node_or_token; past are the children the iterator has gone
\* past, c included
handle_node_or_token(c, past) ==
    IF IsNode(c)
    THEN LET r == handle_node(c, mask_active, mask_stack, current_state, RootFile)
         IN /\ state' = "PendingEvents"
            /\ events' = r.events
            /\ mask_active' = r.mask_active
            /\ mask_stack' = r.mask_stack
            /\ current_state' = r.current_state
            /\ source' = past
            /\ ahead' = "any"
            /\ Hands(Continue)
            /\ Handling(c, r.mask_stack)
    ELSE /\ IF mask_active
            THEN handle_token(c, past)
            ELSE /\ state' = "Iterate"
                 /\ events' = <<>>
                 /\ source' = past
                 /\ ahead' = IF c.kind = "WS" THEN ahead ELSE "any"
                 /\ Hands(Continue)
         /\ UNCHANGED <<mask_active, mask_stack, current_state>>
         /\ Handling(c, mask_stack)

\* the children iterator.next() may yield at this point of the file: those of
\* its class, a `(` only if the macro invocation parser has not seen that
\* none follows, and only a `(` if it has seen one
Children ==
    LET nodes ==
            (((OtherNodes \ DefineNodes) \cup file.defines)
                \ (IF Len(current_state.extension_stack) < 1 + file.extensions
                   THEN {} ELSE ExtensionNodes))
                \cup (IF Len(mask_stack) < file.nesting /\ open_ifs < file.nesting
                      THEN OpeningNodes ELSE {})
        all == file.tokens \cup {n \in nodes : n.kind \in file.kinds}
        blank == {c \in all : IsToken(c) /\ c.kind = "WS"}
        lparen == {c \in all : IsToken(c) /\ c.kind = "LPAREN"}
        full == file.recorded /\ Len(source) >= MaxChildren
    IN IF ahead = "lparen" THEN (IF full THEN lparen ELSE blank \cup lparen)
       ELSE IF full THEN {}
       ELSE IF ahead = "not_lparen" THEN all \ lparen
       ELSE all

\* the children iterator.next() may yield, and the errors that may start at or
\* before the end of the child: those of the first call when the file is read
\* again
NextChildren ==
    IF first_run.run = 1 THEN Children
    ELSE IF Len(source) < Len(first_run.source) THEN {first_run.source[Len(source) + 1]}
    ELSE {}

Reaches ==
    IF first_run.run = 1 THEN located..errors
    ELSE IF Len(source) < Len(first_run.reaches) THEN {first_run.reaches[Len(source) + 1]}
    ELSE {}

\* Iterate staying in Iterate when iterator.next() is None
StepIterateEndStays ==
    /\ state = "Iterate"
    /\ NoWalk
    /\ ahead # "lparen"
    /\ first_run.run = 2 => Len(source) = Len(first_run.source)
    /\ UNCHANGED <<first_run, masked_reach>>
    /\ NoParsing
    /\ state' = "Iterate"
    /\ Hands(Continue)
    /\ NoHandling
    /\ NoDelivery
    /\ UNCHANGED <<file, events, node_or_token, errors, located, mask_stack, mask_active,
                   current_state>>

\* ExpandState::Iterate, iterator.next() is None
StepIterateEnd ==
    /\ state = "Iterate"
    /\ NoWalk
    /\ ahead # "lparen"
    /\ first_run.run = 2 => Len(source) = Len(first_run.source)
    /\ UNCHANGED <<first_run, masked_reach>>
    /\ NoParsing
    /\ state' = "Complete"
    /\ Hands(EndOfStream)
    /\ NoHandling
    /\ NoDelivery
    /\ UNCHANGED <<file, events, node_or_token, errors, located, mask_stack, mask_active,
                   current_state>>

\* ExpandState::Iterate, iterator.next() is a child. The list is sorted by
\* start, so the errors that start at or before the end of the child are its
\* first `reach` ones, and no fewer than for the child before. errors.first()
\* is one of them when reach >= 1; errors.pop() takes the last of the list.
StepIterate ==
    /\ state = "Iterate"
    /\ NoParsing
    /\ UNCHANGED file
    /\ \E c \in NextChildren, reach \in Reaches :
          /\ first_run' = IF file \in RerunFiles /\ first_run.run = 1
                          THEN [first_run EXCEPT !.reaches = Append(@, reach)]
                          ELSE first_run
          /\ masked_reach' = IF file \in ErrorFiles /\ ~mask_active /\ reach > masked_reach
                             THEN reach ELSE masked_reach
          /\ IF reach >= 1
             THEN /\ errors' = errors - 1
                  /\ located' = IF reach < errors THEN reach ELSE errors - 1
                  /\ IF mask_active
                     THEN /\ state' = "PendingOne"
                          /\ node_or_token' = c
                          /\ source' = Past(Append(source, c))
                          /\ Hands(ParseError(errors, reach = errors))
                          /\ NoHandling
                          /\ NoDelivery
                          /\ UNCHANGED <<events, mask_stack, mask_active, current_state,
                                         ahead>>
                     ELSE /\ handle_node_or_token(c, Past(Append(source, c)))
                          /\ UNCHANGED node_or_token
             ELSE /\ handle_node_or_token(c, Past(Append(source, c)))
                  /\ located' = reach
                  /\ UNCHANGED <<node_or_token, errors>>

\* PendingOne going back to Iterate without handling the child it kept
StepPendingOneDropsChild ==
    /\ UNCHANGED <<first_run, masked_reach>>
    /\ state = "PendingOne"
    /\ state' = "Iterate"
    /\ node_or_token' = NoChild
    /\ Hands(Continue)
    /\ NoHandling
    /\ NoDelivery
    /\ NoWalk
    /\ NoParsing
    /\ UNCHANGED <<file, events, errors, located, mask_stack, mask_active, current_state>>

\* ExpandState::PendingOne
StepPendingOne ==
    /\ UNCHANGED <<first_run, masked_reach>>
    /\ state = "PendingOne"
    /\ NoParsing
    /\ handle_node_or_token(node_or_token, source)
    /\ node_or_token' = NoChild
    /\ UNCHANGED <<file, errors, located>>

\* ExpandState::PendingEvents
StepPendingEvents ==
    /\ UNCHANGED <<first_run, masked_reach>>
    /\ state = "PendingEvents"
    /\ NoWalk
    /\ NoParsing
    /\ IF events # <<>>
       THEN /\ Hands(events[1])
            /\ events' = swap_pop_rest(events)
            /\ Delivery
            /\ UNCHANGED state
       ELSE /\ Hands(Continue)
            /\ state' = "Iterate"
            /\ NoDelivery
            /\ UNCHANGED events
    /\ NoHandling
    /\ UNCHANGED <<file, node_or_token, errors, located, mask_stack, mask_active,
                   current_state>>

\* ExpandedTokens handing back the front event and keeping it in the queue
StepExpandedTokensKeepsFront ==
    /\ UNCHANGED <<first_run, masked_reach>>
    /\ state = "ExpandedTokens"
    /\ NoWalk
    /\ NoParsing
    /\ IF events # <<>>
       THEN /\ Hands(events[1])
            /\ Delivery
            /\ UNCHANGED <<state, events>>
       ELSE /\ Hands(Continue)
            /\ state' = "Iterate"
            /\ NoDelivery
            /\ UNCHANGED events
    /\ NoHandling
    /\ UNCHANGED <<file, node_or_token, errors, located, mask_stack, mask_active,
                   current_state>>

\* ExpandState::ExpandedTokens
StepExpandedTokens ==
    /\ UNCHANGED <<first_run, masked_reach>>
    /\ state = "ExpandedTokens"
    /\ NoWalk
    /\ NoParsing
    /\ IF events # <<>>
       THEN /\ Hands(events[1])
            /\ events' = pop_front_rest(events)
            /\ Delivery
            /\ UNCHANGED state
       ELSE /\ Hands(Continue)
            /\ state' = "Iterate"
            /\ NoDelivery
            /\ UNCHANGED events
    /\ NoHandling
    /\ UNCHANGED <<file, node_or_token, errors, located, mask_stack, mask_active,
                   current_state>>

\* ExpandState::Complete
StepComplete ==
    /\ UNCHANGED <<first_run, masked_reach>>
    /\ state = "Complete"
    /\ NoWalk
    /\ NoParsing
    /\ Hands(EndOfStream)
    /\ NoHandling
    /\ NoDelivery
    /\ UNCHANGED <<file, state, events, node_or_token, errors, located, mask_stack,
                   mask_active, current_state>>

Next ==
    \/ StepInit
    \/ StepIterate
    \/ StepIterateEnd
    \/ StepPendingOne
    \/ StepPendingEvents
    \/ StepExpandedTokens
    \/ StepComplete

Spec == Init /\ [][Next]_vars

SpecDirectives == InitDirectives /\ [][Next]_vars

SpecErrors == InitErrors /\ [][Next]_vars

InitTokens == InitOn(TokenFiles \cup MacroFiles)

SpecTokens == InitTokens /\ [][Next]_vars

\* a caller of Processor::parse: any input path, on the processor as the
\* calls before left it
CallParse ==
    /\ \E path \in InputPaths : \E o \in parse(processor, path, fs) : Parsing(path, o)
    /\ UNCHANGED <<fs, source, output, ahead, first_run, masked_reach>>
    /\ UNCHANGED <<file, state, events, node_or_token, errors, located, mask_stack,
                   mask_active, current_state, returned, handled, before, open_ifs,
                   outer_emit, toplevel, must_skip, if_group, unterminated, produced, delivered,
                   reported>>

\* the file system: a file gets its next content
WriteFile ==
    /\ \E c \in CanonicalPaths :
          /\ fs[c] < MaxVersion
          /\ fs' = [fs EXCEPT ![c] = @ + 1]
    /\ UNCHANGED <<processor, last_parse, first_parse, failed_read, source, output, ahead,
                   first_run, masked_reach>>
    /\ UNCHANGED <<file, state, events, node_or_token, errors, located, mask_stack,
                   mask_active, current_state, returned, handled, before, open_ifs,
                   outer_emit, toplevel, must_skip, if_group, unterminated, produced, delivered,
                   reported>>

\* Processor::process called again for the root once the first Expand has
\* ended: Expand::new makes a new mask stack, emit bit and state, and borrows
\* the processor as the first call left it
Restart ==
    /\ file \in RerunFiles
    /\ first_run.run = 1
    /\ state = "Complete"
    /\ first_run' = [first_run EXCEPT !.run = 2, !.source = source, !.output = output]
    /\ masked_reach' = 0
    /\ state' = "Init"
    /\ events' = <<>>
    /\ node_or_token' = NoChild
    /\ errors' = 0
    /\ located' = 0
    /\ mask_stack' = <<>>
    /\ mask_active' = TRUE
    /\ returned' = Continue
    /\ handled' = NoChild
    /\ before' = NoBefore
    /\ open_ifs' = 0
    /\ outer_emit' = <<>>
    /\ toplevel' = NoGroup
    /\ must_skip' = "no"
    /\ if_group' = 0
    /\ unterminated' = 0
    /\ produced' = <<>>
    /\ delivered' = <<>>
    /\ reported' = <<>>
    /\ source' = <<>>
    /\ output' = <<>>
    /\ ahead' = "any"
    /\ UNCHANGED <<file, current_state, processor, fs, last_parse, first_parse,
                   failed_read>>

\* the caller pulls until the stream ends, and each pull runs the loop of
\* Expand::next until it returns
SpecTokensLive == SpecTokens /\ WF_vars(Next)

InitIf == InitOn(IfFiles)

SpecIf == InitIf /\ [][Next]_vars

InitRuns == InitOn(RerunFiles)

NextRuns ==
    \/ Next
    \/ Restart

SpecRuns == InitRuns /\ [][NextRuns]_vars

NextParse ==
    \/ CallParse
    \/ WriteFile

\* calls of parse on one processor while the files change
SpecParse == Init /\ [][NextParse]_vars

TypeOK ==
    /\ state \in {"Init", "Iterate", "PendingOne", "PendingEvents", "ExpandedTokens", "Complete"}
    /\ Len(events) <= 2
    /\ Len(mask_stack) <= MaxDepth
    /\ Len(outer_emit) = Len(mask_stack)
    /\ mask_active \in BOOLEAN

(***************************************************************************)
(* Properties                                                              *)
(***************************************************************************)
HandledNode(kind) == IsNode(handled) /\ handled.kind = kind

\* the handled token produced a Token event, directly or through the queue of
\* its expansion
TokenEmitted ==
    returned.type = "Token" \/ state \in {"ExpandedTokens", "PendingEvents"}

AllActive(stack) == \A i \in 1..Len(stack) : IsActiveFrame(stack[i])

HasError(evs) == \E i \in 1..Len(evs) : evs[i].type = "Error"

\* C1: in a top-level `#ifdef A <g1> #else <g2> #endif` reached with the emit
\* bit true, the tokens of g1 are emitted exactly when A is defined and the
\* tokens of g2 exactly when A is not defined; the three directives each
\* yield their Directive event.
C1_IfDefElseSelectsOneGroup ==
    /\ (IsToken(handled) /\ before.toplevel.group = "g1")
          => (TokenEmitted <=> before.toplevel.defined)
    /\ (IsToken(handled) /\ before.toplevel.group = "g2")
          => (TokenEmitted <=> ~before.toplevel.defined)
    /\ (HandledNode("PP_IFDEF") /\ toplevel.group = "g1")
          => events = <<DirectiveEvent("IfDef", handled)>>
    /\ (HandledNode("PP_ELSE") /\ before.toplevel.group = "g1")
          => events = <<DirectiveEvent("Else", handled)>>
    /\ (HandledNode("PP_ENDIF") /\ before.toplevel.group \in {"g1", "g2"})
          => events = <<DirectiveEvent("EndIf", handled)>>

\* C2: the emit bit is true if and only if every frame of the mask stack is
\* an Active frame.
C2_EmitIffAllActive == mask_active <=> AllActive(mask_stack)

\* C3: a conditional opened and closed inside an excluded group leaves the
\* emit bit false, and the tokens after its #endif are not emitted.
C3_NestedPairKeepsMasked ==
    /\ (HandledNode("PP_ENDIF") /\ must_skip = "after_endif") => ~mask_active
    /\ (IsToken(handled) /\ before.must_skip = "after_endif") => ~TokenEmitted

\* C4: the #else of a conditional whose frame is None, nested inside an
\* excluded group, leaves the emit bit false, and the tokens of its group are
\* not emitted.
C4_NestedElseKeepsMasked ==
    /\ (HandledNode("PP_ELSE") /\ must_skip = "after_else") => ~mask_active
    /\ (IsToken(handled) /\ before.must_skip = "after_else") => ~TokenEmitted

\* C5: a second #else of a conditional yields one ExtraElse error and no
\* Directive, and leaves the mask stack as it was.
C5_ExtraElseKeepsStack ==
    (/\ HandledNode("PP_ELSE")
     /\ before.mask_stack # <<>>
     /\ last(before.mask_stack).tag # "None"
     /\ last(before.mask_stack).else_seen)
        => /\ events = <<ErrorEvent("ExtraElse")>>
           /\ mask_stack = before.mask_stack

\* C6: an #else met with an empty mask stack yields exactly one ExtraElse
\* error and no Directive, and leaves the mask stack empty and the emit bit
\* as it was.
C6_StrayElse ==
    (HandledNode("PP_ELSE") /\ before.mask_stack = <<>>)
        => /\ events = <<ErrorEvent("ExtraElse")>>
           /\ mask_stack = <<>>
           /\ mask_active = before.mask_active

C6_Witness ==
    /\ HandledNode("PP_ELSE")
    /\ before.mask_stack = <<>>
    /\ events = <<ErrorEvent("ExtraElse")>>

\* C7: an #endif met with an empty mask stack yields exactly one ExtraEndIf
\* error and no Directive, and leaves the stack empty; an #endif met with a
\* non-empty stack pops exactly one frame and yields no error.
C7_EndIf ==
    HandledNode("PP_ENDIF")
        => IF before.mask_stack = <<>>
           THEN /\ events = <<ErrorEvent("ExtraEndIf")>>
                /\ mask_stack = <<>>
           ELSE /\ mask_stack = pop(before.mask_stack)
                /\ ~HasError(events)

\* a stray #endif after a conditional was closed by its own #endif
C7_Witness ==
    /\ HandledNode("PP_ENDIF")
    /\ before.mask_stack = <<>>
    /\ events = <<ErrorEvent("ExtraEndIf")>>
    /\ open_ifs = 0

C7_WitnessPop ==
    /\ HandledNode("PP_ENDIF")
    /\ Len(before.mask_stack) = 2
    /\ Len(mask_stack) = 1

\* C8: the stream ends only after one UnterminatedConditional error was
\* handed back for each frame still on the mask stack; when every
\* conditional was closed the stack is empty and there is no such error.
C8_UnterminatedReported ==
    returned = EndOfStream
        => /\ unterminated = Len(mask_stack)
           /\ open_ifs = 0 => (mask_stack = <<>> /\ unterminated = 0)

\* C9: the depth of the mask stack is the number of #if/#ifdef/#ifndef seen
\* so far that no #endif has closed.
C9_DepthCountsOpenIfs == Len(mask_stack) = open_ifs

\* C10: a decoded #define or #undef, in an emit-active region, of a name
\* whose definition is protected leaves the definition table unchanged and
\* yields, after its Directive, exactly one ProtectedDefine error carrying
\* the name, with is_undef false for #define and true for #undef; in an
\* excluded region it leaves the table unchanged as well.
C10_ProtectedStable ==
    (/\ IsNode(handled)
     /\ handled.kind \in {"PP_DEFINE", "PP_UNDEF"}
     /\ handled.ok
     /\ contains_key(before.current_state.definitions, handled.ident)
     /\ protected(before.current_state.definitions[handled.ident]))
        => /\ current_state = before.current_state
           /\ before.mask_active
                 => events =
                        << DirectiveEvent(IF handled.kind = "PP_DEFINE"
                                          THEN "Define" ELSE "Undef", handled),
                           ProtectedDefine(handled.ident, handled.kind = "PP_UNDEF") >>

\* #define of a protected definition a caller supplied, whose name does not
\* start with GL_
C10_Witness ==
    /\ HandledNode("PP_DEFINE")
    /\ handled.ok
    /\ handled.ident = NameP
    /\ before.mask_active
    /\ contains_key(before.current_state.definitions, NameP)
    /\ protected(before.current_state.definitions[NameP])
    /\ events[2] = ProtectedDefine(NameP, FALSE)

\* the #define or #undef just handled was decoded in an emit-active region
DecodedActive(kind) == HandledNode(kind) /\ handled.ok /\ before.mask_active

DirectiveName(kind) == IF kind = "PP_DEFINE" THEN "Define" ELSE "Undef"

GLNames(definitions) == {n \in DOMAIN definitions : starts_with(n, GLPrefix)}

\* the other entries of the table are the ones it had before the handling
OthersUnchanged(name) ==
    /\ DOMAIN current_state.definitions \ {name}
          = DOMAIN before.current_state.definitions \ {name}
    /\ \A n \in DOMAIN current_state.definitions \ {name} :
          current_state.definitions[n] = before.current_state.definitions[n]

\* C11: a decoded #define or #undef, in an emit-active region, of a name
\* beginning with GL_ leaves the definition table unchanged and yields, after
\* its Directive, exactly one ProtectedDefine error, whether the name is
\* defined or not; no handling of any child adds a name beginning with GL_ to
\* the table, removes one or changes its definition.
C11_GLPrefixProtected ==
    /\ \A kind \in {"PP_DEFINE", "PP_UNDEF"} :
          (DecodedActive(kind) /\ starts_with(handled.ident, GLPrefix))
              => /\ current_state = before.current_state
                 /\ events = << DirectiveEvent(DirectiveName(kind), handled),
                                ProtectedDefine(handled.ident, kind = "PP_UNDEF") >>
    /\ handled # NoChild
          => /\ GLNames(current_state.definitions)
                   = GLNames(before.current_state.definitions)
             /\ \A n \in GLNames(current_state.definitions) :
                   current_state.definitions[n] = before.current_state.definitions[n]

\* #undef of a name beginning with GL_ that has no definition
C11_Witness ==
    /\ DecodedActive("PP_UNDEF")
    /\ handled.ident = NameGLX
    /\ ~contains_key(before.current_state.definitions, NameGLX)
    /\ events[2] = ProtectedDefine(NameGLX, TRUE)

\* C12: a decoded #define, in an emit-active region, of a name that is not
\* protected and does not begin with GL_ yields its Directive and no error;
\* afterwards the table holds for the name the new definition, inserted when
\* the name was absent and replacing the former one otherwise, and every
\* other entry is unchanged.
C12_DefineInsertsOrReplaces ==
    (/\ DecodedActive("PP_DEFINE")
     /\ ~starts_with(handled.ident, GLPrefix)
     /\ ~(/\ contains_key(before.current_state.definitions, handled.ident)
          /\ protected(before.current_state.definitions[handled.ident])))
        => /\ events = <<DirectiveEvent("Define", handled)>>
           /\ contains_key(current_state.definitions, handled.ident)
           /\ current_state.definitions[handled.ident].kind = "Regular"
           /\ current_state.definitions[handled.ident].name = handled.ident
           /\ current_state.definitions[handled.ident].body = handled.body
           /\ ~protected(current_state.definitions[handled.ident])
           /\ OthersUnchanged(handled.ident)

\* #define replacing an unprotected definition with a different body
C12_Witness ==
    /\ DecodedActive("PP_DEFINE")
    /\ handled.ident = NameA
    /\ contains_key(before.current_state.definitions, NameA)
    /\ before.current_state.definitions[NameA].body # handled.body
    /\ current_state.definitions[NameA].body = handled.body

C12_WitnessInsert ==
    /\ DecodedActive("PP_DEFINE")
    /\ handled.ident = NameA
    /\ ~contains_key(before.current_state.definitions, NameA)
    /\ contains_key(current_state.definitions, NameA)

\* C13: a decoded #undef, in an emit-active region, of a name that is not
\* protected and does not begin with GL_ yields its Directive and no error;
\* afterwards the name has no entry and every other entry is unchanged. No
\* child other than a #define gives a definition to a name that had none,
\* and a decoded emit-active #ifdef of a name without entry clears the emit
\* bit.
C13_UndefRemoves ==
    /\ (/\ DecodedActive("PP_UNDEF")
        /\ ~starts_with(handled.ident, GLPrefix)
        /\ ~(/\ contains_key(before.current_state.definitions, handled.ident)
             /\ protected(before.current_state.definitions[handled.ident])))
           => /\ events = <<DirectiveEvent("Undef", handled)>>
              /\ ~contains_key(current_state.definitions, handled.ident)
              /\ OthersUnchanged(handled.ident)
    /\ (handled # NoChild /\ ~HandledNode("PP_DEFINE"))
           => DOMAIN current_state.definitions
                  \subseteq DOMAIN before.current_state.definitions
    /\ (/\ DecodedActive("PP_IFDEF")
        /\ ~contains_key(before.current_state.definitions, handled.ident))
           => ~mask_active

\* #undef removing the unprotected definition of A
C13_Witness ==
    /\ DecodedActive("PP_UNDEF")
    /\ handled.ident = NameA
    /\ contains_key(before.current_state.definitions, NameA)
    /\ ~contains_key(current_state.definitions, NameA)

\* #ifdef A found false after A was removed by an #undef
C13_WitnessIfDef ==
    /\ DecodedActive("PP_IFDEF")
    /\ handled.ident = NameA
    /\ current_state # DefaultState
    /\ ~contains_key(current_state.definitions, NameA)
    /\ ~mask_active

\* the events queued by the last handling hold a Directive and an Error
DirectiveAndError(evs) ==
    /\ \E i \in 1..Len(evs) : evs[i].type = "Directive"
    /\ HasError(evs)

\* a Directive and the Error it induces are queued and handed back in this
\* order, and the next child is taken only once the queue is empty
DirectiveBeforeError ==
    /\ DirectiveAndError(produced)
          => /\ produced[1].type = "Directive"
             /\ \A i \in 2..Len(produced) : produced[i].type = "Error"
             /\ delivered \o events = produced
    /\ state \in {"Iterate", "PendingOne"} => events = <<>>

\* C14: when the handling of one directive yields a Directive event and an
\* Error event, the Directive is handed back before the Error and both before
\* the next child is taken; and an #error in an emit-active region always
\* yields both a Directive and an ErrorDirective error.
C14_ErrorAlwaysBoth ==
    /\ DirectiveBeforeError
    /\ (HandledNode("PP_ERROR") /\ before.mask_active)
          => /\ Len(events) = 2
             /\ events[1].type = "Directive" /\ events[1].kind = "Error"
             /\ events[2].type = "Error" /\ events[2].kind = "ErrorDirective"

\* C14, amended: the same order of delivery; an #error in an emit-active
\* region yields its Directive and, after it, an ErrorDirective error when
\* the directive decodes, and its Directive alone when it does not.
C14_ErrorBothWhenDecoded ==
    /\ DirectiveBeforeError
    /\ (HandledNode("PP_ERROR") /\ before.mask_active)
          => events = <<DirectiveEvent("Error", handled)>>
                         \o (IF handled.ok
                             THEN <<ErrorDirective(handled.message)>> ELSE <<>>)

\* both events of a decoded #error have been handed back, in order
C14_Witness ==
    /\ state = "PendingEvents"
    /\ events = <<>>
    /\ Len(delivered) = 2
    /\ delivered[1].type = "Directive" /\ delivered[1].kind = "Error"
    /\ delivered[2] = ErrorDirective("m")
    /\ delivered[2] = returned

\* C16: with the include mode None, an #include in an emit-active region
\* yields an IncludeNotEnabled error and no file is entered.
C16_IncludeNotEnabled ==
    (/\ HandledNode("PP_INCLUDE")
     /\ before.mask_active
     /\ before.current_state.include_mode = "None")
        => /\ \E i \in 1..Len(events) :
                 events[i].type = "Error" /\ events[i].kind = "IncludeNotEnabled"
           /\ \A i \in 1..Len(events) : events[i].type # "EnterFile"

\* C17: with an include mode enabled, an #include in an emit-active region
\* yields Directive(Include) and then EnterFile for the included file, ahead
\* of the events of that file.
C17_IncludeOrder ==
    (/\ HandledNode("PP_INCLUDE")
     /\ before.mask_active
     /\ before.current_state.include_mode # "None")
        => /\ Len(events) >= 2
           /\ events[1].type = "Directive" /\ events[1].kind = "Include"
           /\ events[2].type = "EnterFile"

\* the handled child is a decoded #extension, in an emit-active region,
\* naming one of the two include extensions
IncludeExtension(c, active) ==
    /\ IsNode(c)
    /\ c.kind = "PP_EXTENSION"
    /\ c.ok
    /\ active
    /\ c.name \in {GL_ARB_SHADING_LANGUAGE_INCLUDE, GL_GOOGLE_INCLUDE_DIRECTIVE}

\* C18: a step changes the include mode only by handling a decoded
\* #extension that names GL_ARB_shading_language_include or
\* GL_GOOGLE_include_directive in an emit-active region: an active behaviour
\* gives ArbInclude, respectively GoogleInclude, any other behaviour gives
\* None whichever mode was set; every other step leaves the mode as it was.
C18_IncludeModeFrame ==
    [][IF IncludeExtension(handled', mask_active)
       THEN current_state'.include_mode =
               IF handled'.behavior \in {"require", "enable", "warn"}
               THEN IF handled'.name = GL_ARB_SHADING_LANGUAGE_INCLUDE
                    THEN "ArbInclude" ELSE "GoogleInclude"
               ELSE "None"
       ELSE current_state'.include_mode = current_state.include_mode]_vars

\* disabling GL_ARB_shading_language_include while GoogleInclude is set
C18_Witness ==
    /\ IncludeExtension(handled, before.mask_active)
    /\ handled.name = GL_ARB_SHADING_LANGUAGE_INCLUDE
    /\ handled.behavior = "disable"
    /\ before.current_state.include_mode = "GoogleInclude"
    /\ current_state.include_mode = "None"

IsParseError(ev) == ev.type = "Error" /\ ev.kind = "Parse"

\* the parser errors handed back so far came in the order of their starts
ReportedInOrder ==
    \A i \in 1..Len(reported) : \A j \in 1..Len(reported) :
        i < j => reported[i] < reported[j]

\* the parser error handed back ahead of a child starts at or before its end
ReportedWhenReached == IsParseError(returned) => returned.reached

\* once a child of an emit-active region has yielded an event, no parser
\* error that starts at or before its end is left in the list
ReachedAllReported ==
    (/\ handled # NoChild
     /\ before.mask_active
     /\ (events # <<>> \/ returned.type = "Token"))
        => located = 0

\* C15: the parser errors are handed back in the order of their start
\* positions; each one handed back ahead of a child starts at or before that
\* child; and every parser error that starts at or before a child is handed
\* back ahead of the events of that child.
C15_ParserErrorsInOrder ==
    /\ ReportedInOrder
    /\ ReportedWhenReached
    /\ ReachedAllReported

\* a call of parse has been made and answered Ok
ParseSucceeded == last_parse # NoParse /\ last_parse.outcome.result.ok

\* C19: over the calls of parse on one processor, every FileId allocated or
\* returned is a non-zero number; two different canonical paths never have
\* the same FileId; two input paths get the same FileId exactly when they
\* have the same canonical path; and a call leaves every FileId allocated
\* before it as it was.
C19_FileIdsStable ==
    LET file_ids == processor.file_ids
        canonical_paths == processor.canonical_paths
    IN /\ \A c \in DOMAIN file_ids : file_ids[c] \in Nat \ {0}
       /\ \A c \in DOMAIN file_ids : \A d \in DOMAIN file_ids :
             file_ids[c] = file_ids[d] => c = d
       /\ \A p \in DOMAIN first_parse : \A q \in DOMAIN first_parse :
             first_parse[p].file_id = first_parse[q].file_id
                 <=> canonical_paths[p] = canonical_paths[q]
       /\ ParseSucceeded
             => /\ last_parse.outcome.result.file_id # 0
                /\ last_parse.outcome.result.file_id
                      = file_ids[canonical_paths[last_parse.path]]
       /\ last_parse # NoParse
             => \A c \in DOMAIN last_parse.before.file_ids :
                   /\ c \in DOMAIN file_ids
                   /\ file_ids[c] = last_parse.before.file_ids[c]

\* the three input paths were parsed: a and ./a share a FileId, b has another
C19_Witness ==
    /\ DOMAIN first_parse = InputPaths
    /\ first_parse["a"].file_id = first_parse["./a"].file_id
    /\ first_parse["b"].file_id # first_parse["a"].file_id
    /\ ParseSucceeded
    /\ Cardinality(DOMAIN last_parse.before.file_ids) = 2

\* C20: a call of parse for an input path that an earlier call parsed with
\* success answers the FileId and the Ast of that earlier call and calls
\* neither canonicalize nor read, whatever the file holds by then.
C20_ParseAgainCached ==
    (last_parse # NoParse /\ last_parse.again)
        => /\ last_parse.outcome.result = first_parse[last_parse.path]
           /\ ~last_parse.outcome.canonicalized
           /\ ~last_parse.outcome.read

\* a path parsed again after the content of its file has changed
C20_Witness ==
    /\ last_parse # NoParse
    /\ last_parse.again
    /\ last_parse.outcome.result.ok
    /\ fs[Canonical(last_parse.path)] # last_parse.outcome.result.ast.parsed_from

RECURSIVE TokenTexts(_)
\* the texts of the Token events of a sequence of events, in order
TokenTexts(evs) ==
    IF evs = <<>> THEN <<>>
    ELSE IF Head(evs).type = "Token" THEN <<Head(evs).text>> \o TokenTexts(Tail(evs))
    ELSE TokenTexts(Tail(evs))

\* the texts of the children, in order
SourceTexts(children) == [i \in 1..Len(children) |-> children[i].text]

\* the file has no directive node so far and none of its identifiers has a
\* definition
PlainTokens ==
    /\ \A i \in 1..Len(source) : IsToken(source[i])
    /\ \A i \in 1..Len(source) :
          ~(source[i].kind = "IDENT_KW"
                /\ contains_key(current_state.definitions, source[i].text))

\* the text of the token kept back while the parser error ahead of it is
\* handed back
KeptBack == IF state = "PendingOne" THEN <<node_or_token.text>> ELSE <<>>

\* C21: in a file without directive nodes whose identifiers have no
\* definition, the Token events handed back carry, in order, the texts of the
\* tokens the iterator has gone past, one event per token, whatever parser
\* errors are handed back between them; the first event is EnterFile and the
\* only other events are parser errors.
C21_TokensRoundTrip ==
    (file.recorded /\ PlainTokens)
        => /\ TokenTexts(output) \o KeptBack = SourceTexts(source)
           /\ \A i \in 1..Len(output) :
                 \/ output[i].type = "Token"
                 \/ IsParseError(output[i])
                 \/ i = 1 /\ output[i].type \in {"EnterFile", "IoError"}

\* a file of MaxChildren tokens walked to its end, a parser error in between
C21_Witness ==
    /\ file.recorded /\ PlainTokens
    /\ state = "Complete"
    /\ Len(source) = MaxChildren
    /\ \E i \in 2..Len(output) - 1 : IsParseError(output[i])
    /\ \E i \in 1..Len(source) : source[i].kind = "IDENT_KW"
    /\ TokenTexts(output) = SourceTexts(source)

\* the identifier token just handled in an emit-active region has an
\* object-like definition with this body
Expands(name, body) ==
    /\ IsToken(handled)
    /\ handled.kind = "IDENT_KW"
    /\ handled.text = name
    /\ before.mask_active
    /\ contains_key(current_state.definitions, name)
    /\ current_state.definitions[name].kind = "Regular"
    /\ ~current_state.definitions[name].function_like
    /\ current_state.definitions[name].body = body

\* C22: the expansion of an identifier ends for every definition table, its
\* tokens are handed back as they are and none is expanded again: after
\* #define A A the use of A yields the one token A, and so it does after
\* #define A B and #define B A.
C22_ExpansionEnds ==
    /\ Expands(NameA, <<NameA>>)
          => state = "ExpandedTokens" /\ events = TokensOf(<<NameA>>)
    /\ (/\ Expands(NameA, <<NameB>>)
        /\ contains_key(current_state.definitions, NameB)
        /\ current_state.definitions[NameB].body = <<NameA>>)
          => state = "ExpandedTokens" /\ events = TokensOf(<<NameA>>)
    /\ state = "ExpandedTokens"
          => /\ delivered \o events = produced
             /\ Len(produced) <= 1
             /\ events = <<>> => returned \in {Continue, produced[Len(produced)]}

\* the token A of the expansion of A, defined as A, has been handed back
C22_Witness ==
    /\ state = "ExpandedTokens"
    /\ events = <<>>
    /\ delivered = TokensOf(<<NameA>>)
    /\ returned = delivered[1]
    /\ current_state.definitions[NameA].body = <<NameA>>

\* the use of A after #define A B and #define B A
C22_WitnessMutual ==
    /\ Expands(NameA, <<NameB>>)
    /\ contains_key(current_state.definitions, NameB)
    /\ current_state.definitions[NameB].body = <<NameA>>
    /\ events = TokensOf(<<NameA>>)

\* the call of process opened the root
Opened(out) == out # <<>> /\ out[1].type = "EnterFile"

SuppressedKinds == {"ProtectedDefine", "ErrorDirective", "Unhandled", "Parse"}

\* the child just handled was met with the emit bit false
HandledMasked == handled # NoChild /\ ~before.mask_active

\* the #else just handled is redundant: no frame, or a frame that has seen
\* an #else
RedundantElse ==
    /\ HandledNode("PP_ELSE")
    /\ \/ before.mask_stack = <<>>
       \/ /\ last(before.mask_stack).tag # "None"
          /\ last(before.mask_stack).else_seen

\* C24: while the emit bit is false no ProtectedDefine, ErrorDirective,
\* Unhandled or parser error event is handed back, whereas a redundant #else
\* and a stray #endif are reported whatever the emit bit.
C24_ErrorsMaskedButConditional ==
    /\ HandledMasked
          => /\ returned = Continue
             /\ \A i \in 1..Len(events) :
                   ~(events[i].type = "Error" /\ events[i].kind \in SuppressedKinds)
    /\ IsParseError(returned) => mask_active
    /\ RedundantElse => events = <<ErrorEvent("ExtraElse")>>
    /\ (HandledNode("PP_ENDIF") /\ before.mask_stack = <<>>)
          => events = <<ErrorEvent("ExtraEndIf")>>

\* a second #else of a conditional, met with the emit bit false, is reported
C24_Witness ==
    /\ HandledMasked
    /\ RedundantElse
    /\ before.mask_stack # <<>>
    /\ events = <<ErrorEvent("ExtraElse")>>

\* a stray #endif met with the emit bit false is reported
C24_WitnessEndIf ==
    /\ HandledMasked
    /\ HandledNode("PP_ENDIF")
    /\ events = <<ErrorEvent("ExtraEndIf")>>

\* a decoded #error, a #define of a protected name and an #include met with
\* the emit bit false yield nothing
C24_WitnessError == HandledMasked /\ HandledNode("PP_ERROR") /\ handled.ok /\ events = <<>>

C24_WitnessDefine ==
    /\ HandledMasked
    /\ HandledNode("PP_DEFINE")
    /\ handled.ok
    /\ starts_with(handled.ident, GLPrefix)
    /\ events = <<>>

C24_WitnessInclude == HandledMasked /\ HandledNode("PP_INCLUDE") /\ events = <<>>

\* a parser error is dropped at a child met with the emit bit false
C24_WitnessParse ==
    /\ HandledMasked
    /\ errors < before.errors
    /\ returned = Continue

\* the kinds of directive that are skipped in an excluded region
SkippedKinds == {"PP_VERSION", "PP_EXTENSION", "PP_DEFINE", "PP_UNDEF", "PP_ERROR"}

\* the kinds of the conditional directives
ConditionalDirectives == OpeningKinds \cup {"PP_ELSE", "PP_ENDIF"}

\* the handling left the mask stack, the emit bit and the processor state as
\* they were
DriverUnchanged ==
    /\ mask_stack = before.mask_stack
    /\ mask_active = before.mask_active
    /\ current_state = before.current_state

\* C25: while the emit bit is false, #version, #extension, #define, #undef,
\* #error and every token yield no event and leave the version, the extension
\* stack, the include mode and the definition table as they were; only a
\* conditional directive changes the state of the driver there.
C25_MaskedSkipped ==
    HandledMasked
        => /\ (IsToken(handled) \/ handled.kind \in SkippedKinds)
                 => /\ events = <<>>
                    /\ returned = Continue
                    /\ DriverUnchanged
           /\ ~DriverUnchanged
                 => IsNode(handled) /\ handled.kind \in ConditionalDirectives

\* a decoded #define of a new name that is not protected, met with the emit
\* bit false, leaves the table without the name
C25_Witness ==
    /\ HandledMasked
    /\ HandledNode("PP_DEFINE")
    /\ handled.ok
    /\ ~starts_with(handled.ident, GLPrefix)
    /\ ~contains_key(current_state.definitions, handled.ident)
    /\ events = <<>>

\* a decoded #version, a decoded #extension of an include extension, a
\* decoded #undef of a defined name and a token, met with the emit bit false
C25_WitnessVersion ==
    HandledMasked /\ HandledNode("PP_VERSION") /\ handled.ok
        /\ current_state.version # handled.number

C25_WitnessExtension ==
    HandledMasked /\ HandledNode("PP_EXTENSION") /\ handled.ok
        /\ handled.name = GL_GOOGLE_INCLUDE_DIRECTIVE /\ handled.behavior = "enable"
        /\ current_state.include_mode = "None"

C25_WitnessUndef ==
    HandledMasked /\ HandledNode("PP_UNDEF") /\ handled.ok
        /\ contains_key(current_state.definitions, handled.ident)
        /\ ~protected(current_state.definitions[handled.ident])

C25_WitnessToken == HandledMasked /\ IsToken(handled) /\ state = "Iterate"

\* a conditional directive changes the mask stack in an excluded region
C25_WitnessConditional == HandledMasked /\ ~DriverUnchanged

\* the names ProcessorState::default defines
BuiltinNames == {NameCoreProfile, NameLine, NameFile, NameVersion}

\* C26: on a processor built from the default state, GL_core_profile,
\* __LINE__, __FILE__ and __VERSION__ are defined and protected in every
\* reachable state, and an #ifdef GL_core_profile met with the emit bit true
\* selects its group.
C26_BuiltinsStay ==
    /\ \A n \in BuiltinNames :
          /\ contains_key(current_state.definitions, n)
          /\ protected(current_state.definitions[n])
          /\ current_state.definitions[n] = DefaultDefinitions[n]
    /\ (DecodedActive("PP_IFDEF") /\ handled.ident = NameCoreProfile)
          => /\ mask_active
             /\ last(mask_stack) = IfActive(FALSE)
             /\ events = <<DirectiveEvent("IfDef", handled)>>

\* an #ifdef GL_core_profile selects its group on a processor whose state is
\* the default one
C26_Witness ==
    /\ DecodedActive("PP_IFDEF")
    /\ handled.ident = NameCoreProfile
    /\ mask_active
    /\ current_state = DefaultState

\* a decoded #undef and a decoded #define of a built-in name have been handled
\* with the emit bit true
C26_WitnessUndef == DecodedActive("PP_UNDEF") /\ handled.ident \in BuiltinNames

C26_WitnessDefine ==
    /\ DecodedActive("PP_DEFINE")
    /\ handled.ident \in BuiltinNames \ {NameCoreProfile}
    /\ events[2] = ProtectedDefine(handled.ident, FALSE)

\* the token just handled is an identifier
HandledIdent == IsToken(handled) /\ handled.kind = "IDENT_KW"

\* C27: handling an identifier token leaves the definition table as it was,
\* whether the identifier is expanded, is not an invocation, or fails.
C27_TokenKeepsDefinitions ==
    HandledIdent => current_state.definitions = before.current_state.definitions

\* the identifier B, defined by a #define of the file, has been expanded
C27_Witness ==
    /\ HandledIdent
    /\ handled.text = NameB
    /\ before.mask_active
    /\ contains_key(current_state.definitions, NameB)
    /\ state = "ExpandedTokens"

\* the name of a function-like macro has been handled without an invocation
C27_WitnessNotInvocation ==
    /\ HandledIdent
    /\ handled.text = NameF
    /\ contains_key(current_state.definitions, NameF)
    /\ returned = TokenEvent(handled)

\* the invocation parser has looked behind the name of a function-like macro
\* and has seen no `(`
NotInvoked ==
    /\ HandledIdent
    /\ before.mask_active
    /\ contains_key(current_state.definitions, handled.text)
    /\ current_state.definitions[handled.text].kind = "Regular"
    /\ current_state.definitions[handled.text].function_like
    /\ ahead = "not_lparen"

\* a blank that follows such a name has been handled
BlankAfterName ==
    /\ IsToken(handled)
    /\ handled.kind = "WS"
    /\ before.mask_active
    /\ ahead = "not_lparen"

\* C28: the name of a function-like macro that no `(` follows is handed back
\* as it is, as a Token, and the cursor stays right behind the name: the
\* tokens that follow, blanks included, are handled in their order.
C28_NotInvocationVerbatim ==
    /\ NotInvoked
          => /\ state = "Iterate"
             /\ events = <<>>
             /\ returned = TokenEvent(handled)
             /\ last(source) = handled
             /\ last(output) = TokenEvent(handled)
    /\ BlankAfterName
          => /\ state = "Iterate"
             /\ returned = TokenEvent(handled)
             /\ last(source) = handled
             /\ last(output) = TokenEvent(handled)

\* the blank behind the name F, not invoked, has been handed back behind F
C28_Witness ==
    /\ BlankAfterName
    /\ Len(output) >= 2
    /\ output[Len(output) - 1] = TokenEvent(IdentToken(NameF))
    /\ source[Len(source) - 1] = IdentToken(NameF)

\* the name F has been handed back as it is
C28_WitnessName == NotInvoked /\ handled.text = NameF /\ returned = TokenEvent(handled)

\* what the #if itself does: it pushes a None frame, makes the emit bit false
\* and yields no event
IfPushesNone ==
    HandledNode("PP_IF")
        => /\ mask_stack = Append(before.mask_stack, IfNone)
           /\ ~mask_active
           /\ events = <<>>

\* C29: an #if pushes a None frame and makes the emit bit false whatever it
\* was, yields no event, and no token is emitted up to the #else or #endif
\* that matches it.
C29_IfGroupSkipped ==
    /\ IfPushesNone
    /\ (IsToken(handled) /\ before.if_group > 0) => ~TokenEmitted

\* the kinds of node of the modelled files that handle_node has no arm for
UnhandledKinds == {"PP_INCLUDE", "PP_LINE"}

\* C30: a node of a kind that has no arm of its own yields exactly one
\* Unhandled error when the emit bit is true and nothing when it is false, and
\* leaves the mask stack, the emit bit and the processor state as they were.
C30_UnhandledKind ==
    (IsNode(handled) /\ handled.kind \in UnhandledKinds)
        => /\ events = IF before.mask_active THEN <<Unhandled(handled)>> ELSE <<>>
           /\ DriverUnchanged

\* a #line met with the emit bit true
C30_Witness ==
    /\ HandledNode("PP_LINE")
    /\ before.mask_active
    /\ events = <<Unhandled(handled)>>

\* a #line met with the emit bit false
C30_WitnessMasked == HandledNode("PP_LINE") /\ ~before.mask_active /\ events = <<>>

\* the events that open a run
Opening(ev) == ev.type \in {"EnterFile", "IoError"}

\* C31: the first pull hands back EnterFile for the root, which is then the
\* only EnterFile of the run and comes before every other event, or it hands
\* back one IoError, after which the stream has ended and hands back nothing.
C31_FirstPullOpens ==
    file.recorded
        => /\ state = "Init" <=> output = <<>>
           /\ output # <<>> => Opening(output[1])
           /\ \A i \in 2..Len(output) : ~Opening(output[i])
           /\ (output # <<>> /\ output[1].type = "IoError")
                 => /\ Len(output) = 1
                    /\ state = "Complete"
                    /\ returned \in {IoError, EndOfStream}
           /\ (output # <<>> /\ output[1].type = "EnterFile")
                 => /\ output[1].file_id = RootFile
                    /\ last_parse.outcome.result.ok

\* the root could not be opened: IoError, then the end of the stream
C31_Witness ==
    /\ file.recorded
    /\ output = <<IoError>>
    /\ returned = EndOfStream

\* the root was opened: EnterFile, then a directive and a token
C31_WitnessEnter ==
    /\ file.recorded
    /\ Len(output) = 3
    /\ output[1].type = "EnterFile"
    /\ output[2].type = "Directive"
    /\ output[3].type = "Token"

\* C32: a parser error that starts at or before a child met with the emit bit
\* false is not handed back, at that child or at any later one.
C32_MaskedErrorDiscarded ==
    /\ IsParseError(returned) => returned.index > masked_reach
    /\ \A i \in 1..Len(reported) : reported[i] > masked_reach

\* the file holds no conditional directive
NoConditionals == file.kinds \cap ConditionalDirectives = {}

\* C33: in a file without conditional directives, every parser error the CST
\* builder reports has been handed back, once, when the stream ends; stated
\* for the runs whose remaining errors all start at or before the end of the
\* last child.
C33_AllErrorsEmitted ==
    (/\ NoConditionals
     /\ state = "Complete"
     /\ ParseSucceeded
     /\ located = errors)
        => /\ errors = 0
           /\ \A i \in 1..Len(reported) : \A j \in 1..Len(reported) :
                 reported[i] = reported[j] => i = j

\* C34: whenever the mask stack is empty the emit bit is true, after any
\* sequence of directives, redundant #else and stray #endif included.
C34_EmptyStackEmits == mask_stack = <<>> => mask_active

\* C35: every One frame of the mask stack has else_seen = true: a One frame is
\* only pushed by an #else, so an #else never meets a One frame that has seen
\* none.
C35_OneHasSeenElse ==
    /\ \A i \in 1..Len(mask_stack) : mask_stack[i].tag = "One" => mask_stack[i].else_seen
    /\ (HandledNode("PP_ELSE")
        /\ before.mask_stack # <<>>
        /\ last(before.mask_stack).tag = "One")
          => /\ last(before.mask_stack).else_seen
             /\ events = <<ErrorEvent("ExtraElse")>>

\* an #else has pushed a One frame
C35_Witness ==
    /\ HandledNode("PP_ELSE")
    /\ mask_stack # <<>>
    /\ last(mask_stack) = IfOne(TRUE)

\* an #else has met a One frame
C35_WitnessElse ==
    /\ HandledNode("PP_ELSE")
    /\ before.mask_stack # <<>>
    /\ last(before.mask_stack).tag = "One"

\* the #else or #endif just handled met a frame that was pushed while the
\* emit bit was false
ClosesMaskedConditional ==
    /\ IsNode(handled)
    /\ handled.kind \in {"PP_ELSE", "PP_ENDIF"}
    /\ before.mask_stack # <<>>
    /\ ~last(before.outer_emit)

\* C36: the #else and the #endif of a conditional that was opened while the
\* emit bit was false yield no Directive event.
C36_MaskedConditionalSilent ==
    ClosesMaskedConditional => \A i \in 1..Len(events) : events[i].type # "Directive"

\* the stream has ended
Ended == state = "Complete" /\ returned = EndOfStream

\* C37: for a file of finitely many children the driver ends the stream, and
\* once it has ended it every pull hands back the end of the stream, no event,
\* and leaves the processor as it is.
C37_EndsAndStaysEnded ==
    /\ <>[]Ended
    /\ [][state = "Complete"
             => /\ state' = "Complete"
                /\ returned' = EndOfStream
                /\ output' = output
                /\ current_state' = current_state
                /\ processor' = processor]_vars

\* the stream of a file of MaxChildren children has ended and has been
\* pulled once more
C37_Witness ==
    /\ Ended
    /\ Len(source) >= 1
    /\ Len(output) >= 2

\* the invocation of the identifier just handled has failed
InvocationFailed ==
    /\ HandledIdent
    /\ before.mask_active
    /\ state = "PendingEvents"

\* the queue of a failed invocation
FailureEvents(token) == <<ErrorEvent("Macro"), TokenEvent(token)>>

\* a `(` has been handled as a token
HandledParen == IsToken(handled) /\ handled.kind = "LPAREN" /\ before.mask_active

\* C38: when the invocation of a defined identifier fails, the Error event is
\* handed back first and the identifier next, as it is; the cursor stays right
\* behind the identifier, so the `(` of the argument list is handled as any
\* token, once.
C38_FailedInvocation ==
    /\ InvocationFailed
          => /\ events = FailureEvents(handled)
             /\ returned = Continue
             /\ last(source) = handled
    /\ (state = "PendingEvents" /\ Len(produced) = 2 /\ produced[1] = ErrorEvent("Macro"))
          => delivered \o events = produced
    /\ HandledParen
          => /\ returned = TokenEvent(handled)
             /\ last(source) = handled
             /\ last(output) = TokenEvent(handled)

\* the error, the name F and the `(` behind it have been handed back in that
\* order
C38_Witness ==
    /\ HandledParen
    /\ Len(output) >= 3
    /\ output[Len(output) - 2] = ErrorEvent("Macro")
    /\ output[Len(output) - 1] = TokenEvent(IdentToken(NameF))
    /\ source[Len(source) - 1] = IdentToken(NameF)

\* the last call of parse failed in fs.canonicalize
CanonicalizeFailed ==
    /\ last_parse # NoParse
    /\ ~last_parse.outcome.result.ok
    /\ ~last_parse.outcome.read

\* the last call of parse failed in fs.read
ReadFailed ==
    /\ last_parse # NoParse
    /\ ~last_parse.outcome.result.ok
    /\ last_parse.outcome.read

\* C39: a failed parse leaves the processor fit for a retry. When canonicalize
\* fails, the path, id and CST maps are as they were before the call. When
\* read fails, no CST is cached for the file and the FileId of its canonical
\* path stays allocated from then on; a later successful parse of the path
\* answers that FileId, reading the file when no CST is cached for it yet and
\* not reading it again afterwards.
C39_FailedParseRetry ==
    /\ CanonicalizeFailed
          => /\ last_parse.outcome.canonicalized
             /\ processor = last_parse.before
    /\ ReadFailed
          => LET c == Canonical(last_parse.path)
             IN /\ contains_key(processor.file_ids, c)
                /\ ~contains_key(processor.file_cache, processor.file_ids[c])
                /\ processor.file_cache = last_parse.before.file_cache
                /\ contains_key(last_parse.before.file_ids, c)
                      => processor.file_ids[c] = last_parse.before.file_ids[c]
    /\ \A c \in DOMAIN failed_read :
          /\ contains_key(processor.file_ids, c)
          /\ processor.file_ids[c] = failed_read[c]
    /\ (ParseSucceeded /\ contains_key(failed_read, Canonical(last_parse.path)))
          => LET id == failed_read[Canonical(last_parse.path)]
             IN /\ last_parse.outcome.result.file_id = id
                /\ last_parse.outcome.read
                      <=> ~contains_key(last_parse.before.file_cache, id)
                /\ contains_key(processor.file_cache, id)

\* the read of a failed, another file was parsed, and then a parsed with
\* success: it reads the file and answers the FileId of the failed call
C39_Witness ==
    /\ ParseSucceeded
    /\ contains_key(failed_read, Canonical(last_parse.path))
    /\ last_parse.outcome.read
    /\ Cardinality(DOMAIN last_parse.before.file_cache) = 1
    /\ failed_read[Canonical(last_parse.path)] = 1

\* a call that failed in canonicalize on a processor that holds a file
C39_WitnessCanonicalize ==
    /\ CanonicalizeFailed
    /\ Cardinality(DOMAIN processor.file_cache) = 1

====
